---- MODULE Spec2Model ----
(***************************************************************************)
(* Model of the Genie conversation client, src/01-teams-bot/src/           *)
(* genie_client.py: GenieClient.ask and the helpers it runs                *)
(* (_start_conversation, _follow_up, _poll, _parse_response,               *)
(* _get_query_result).                                                     *)
(*                                                                         *)
(* One call of ask() is a sequential process; pc is its position.  Every   *)
(* blocking HTTP request is one step: the request is issued and the remote *)
(* service's answer, chosen by \E, is received.  Python values are         *)
(* modelled as strings: None is the string None below, a missing JSON key  *)
(* is None too (dict.get returns None, or the default the code names).     *)
(* Times are fixed-point numbers, Unit to the second: every value the code *)
(* computes is a multiple of 1/64 s, which binary floating point holds     *)
(* exactly, so the arithmetic of the model is the arithmetic of the code.  *)
(***************************************************************************)
EXTENDS Integers, Sequences, FiniteSets, TLC

VARIABLES
    pc,               \* position of the ask() call
    question,         \* ask's argument question
    conversation_id,  \* ask's argument conversation_id
    submits,          \* history: submit requests (POST) issued by the call
    conv_id,          \* _poll's parameter conversation_id
    msg_id,           \* _poll's parameter message_id
    interval,         \* _poll's local interval
    elapsed,          \* _poll's local elapsed
    slept,            \* history: the delay of the last time.sleep
    nPolls,           \* history: status polls (GET message) issued by the call
    data,             \* the terminal response handed to _parse_response
    idx,              \* _parse_response: number of attachments scanned
    text_content,     \* _parse_response's local text_content
    sql_content,      \* _parse_response's local sql_content
    columns,          \* _parse_response's local columns
    rows,             \* _parse_response's local rows
    fetches,          \* history: attachment ids of query-result fetches issued
    fetch_failed,     \* history: how many of those fetches raised
    payloads,         \* history: the outcome of each of those fetches
    result,           \* the GenieResult returned by ask
    exc,              \* the exception ask raised
    failed_in,        \* history: the phase whose request the remote failed
    client,           \* the GenieClient object: its instance attributes
    conv_map,         \* app.py: _conv_map, Teams thread -> Genie conversation id
    bpc,              \* app.py: position of the on_message handler
    activity,         \* app.py: the activity on_message is handling
    genie_conv_id,    \* app.py: on_message's local genie_conv_id
    replies,          \* history: what on_message sent for the activity
    before,           \* history: _conv_map when the activity arrived
    asked,            \* history: ask() calls made for the activity
    reset_last,       \* history: threads whose last message with a text was a reset
    self,             \* the OS thread whose ask() call the variables above hold
    other,            \* the frame of the ask() call of the other OS thread
    waiting,          \* app.py: the on_message handlers suspended in the typing send
    chatbot,          \* Databricks app: the messages of the Chatbot component
    sql_output,       \* Databricks app: the SQL shown
    data_table,       \* Databricks app: the dataframe shown
    chart_output,     \* Databricks app: the chart shown
    conv_state,       \* Databricks app: conv_state, the gr.State of the session
    turn,             \* history: the last event the Databricks app handled
    results,          \* run_benchmarks.py: results
    bq,               \* run_benchmarks.py: benchmark questions done
    answers,          \* history: what Genie answered to each benchmark question
    sections,         \* generate_report.py: sections
    rq,               \* generate_report.py: report questions done
    outcomes,         \* history: what Genie answered to each report question
    node,             \* agent.py: the node of the graph that runs next
    messages          \* agent.py: state["messages"]

\* The state of the programs around the client: the Databricks app, the
\* benchmark job, the report job and the LangGraph agent.
scriptVars == <<chatbot, sql_output, data_table, chart_output, conv_state, turn,
                results, bq, answers, sections, rq, outcomes, node, messages>>

vars == <<pc, question, conversation_id, submits, conv_id, msg_id, interval,
          elapsed, slept, nPolls, data, idx, text_content, sql_content,
          columns, rows, fetches, fetch_failed, payloads, result, exc, failed_in,
          client, conv_map, bpc, activity, genie_conv_id, replies, before, asked,
          reset_last, self, other, waiting, scriptVars>>

\* The caller of ask(): the Teams bot, and the threads that call ask().
callerVars == <<conv_map, bpc, activity, genie_conv_id, replies, before, asked,
                reset_last, self, other, waiting, scriptVars>>

callVars == <<question, conversation_id, submits, client, callerVars>>
pollVars == <<conv_id, msg_id, interval, elapsed, slept, nPolls>>
parseVars == <<data, idx, text_content, sql_content, columns, rows, fetches,
               fetch_failed, payloads>>

----------------------------------------------------------------------------
(* Values *)

None == "<None>"

\* Python truth of an Optional[str]: None and "" are false.
Truthy(x) == x # None /\ x # ""

\* Python's `a or b`.
PyOr(a, b) == IF Truthy(a) THEN a ELSE b

\* dict.get(key, default) of a field the response may lack.
GetOr(field, default) == IF field = None THEN default ELSE field

Min(a, b) == IF a <= b THEN a ELSE b

SeqsUpTo(S, n) == UNION {[1..k -> S] : k \in 0..n}

----------------------------------------------------------------------------
(* Bounds of the model *)

\* Longest attachment list of a polled response in Spec.
MaxPollAtt == 1

\* Longest attachment list handed to _parse_response in ParseSpec.
MaxAtt == 2

\* The history counter nPolls stops counting here; the code stays below it.
PollCountCap == 40

Questions == {"q1", "q2"}
ConvIds == {"c1", "c2"}

----------------------------------------------------------------------------
(* Program constants *)

\* Fixed-point unit: 64 keeps 1.5^6 exact, 25 lets 7.59 be written.
Unit == 64 * 25

POLL_INTERVAL_INITIAL == 1 * Unit
POLL_INTERVAL_MAX == 10 * Unit
POLL_TIMEOUT == 300 * Unit

TerminalStatuses == {"COMPLETED", "FAILED", "CANCELLED"}

TIMEOUT_ERROR == "Genie did not respond within the timeout period."

\* What makes session.post/get, raise_for_status or resp.json raise:
\* no connection, a 4xx/5xx status, a body that is not JSON.
Failures == {"ConnectionError", "HTTPError", "JSONDecodeError"}

----------------------------------------------------------------------------
(* What the remote service may answer *)

\* Body of a successful start-conversation or messages POST.
SubmitResponses ==
    [conversation_id : {None, "c1"}, message_id : {None, "m1"}, id : {None, "m2"}]

\* An attachment: text is None when att.get("text") is false, else the
\* content of the text dict ("" when it has none); query likewise;
\* attachment_id is None when the key is missing.
Attachment(t, q, a) == [text |-> t, query |-> q, attachment_id |-> a]

PollAttachments == {Attachment("t1", None, None), Attachment(None, "s1", "a1")}

Attachments ==
    [text : {None, "", "t1"}, query : {None, "", "s1"}, attachment_id : {None, "a1"}]

NonTerminalStatuses == {None, "", "PENDING", "EXECUTING_QUERY", "ERROR", "UNKNOWN"}

Response(s, e, atts) == [status |-> s, error |-> e, attachments |-> atts]

\* Terminal bodies of a status poll in Spec.
PollResponses ==
    {Response(s, e, atts) : s \in TerminalStatuses, e \in {None, "e1"},
                            atts \in SeqsUpTo(PollAttachments, MaxPollAtt)}

\* Terminal bodies handed to _parse_response in ParseSpec.
ParseResponses ==
    {Response(s, e, atts) : s \in TerminalStatuses, e \in {None, "", "e1"},
                            atts \in SeqsUpTo(Attachments, MaxAtt)}

NoData == Response(None, None, <<>>)

\* A column of a query result, with its name; a row, the list of its cells.
Col1 == [name |-> "k1"]
Row1 == <<7>>

\* Bodies of a successful query-result GET (a missing key is <<>>).
QueryResults == {[columns |-> <<Col1>>, rows |-> <<Row1>>],
                 [columns |-> <<>>, rows |-> <<>>]}

----------------------------------------------------------------------------
(* GenieResult *)

GenieResult(s, t, q, c, r, e, cid, mid) ==
    [status |-> s, text |-> t, sql |-> q, columns |-> c, rows |-> r,
     error |-> e, conversation_id |-> cid, message_id |-> mid]

NoResult == GenieResult(None, None, None, <<>>, <<>>, None, None, None)

\* The outcome of a query-result fetch: the payload of one that answered,
\* nothing of one that raised.
Fetched(qr) == [ok |-> TRUE, columns |-> qr.columns, rows |-> qr.rows]

NotFetched == [ok |-> FALSE, columns |-> <<>>, rows |-> <<>>]

\* The frame of an ask() call that has not begun: the value of every
\* argument and local of the call and of its helpers.
NoFrame ==
    [pc |-> "idle", question |-> None, conversation_id |-> None, submits |-> <<>>,
     conv_id |-> None, msg_id |-> None, interval |-> 0, elapsed |-> 0, slept |-> 0,
     nPolls |-> 0, data |-> NoData, idx |-> 0, text_content |-> None,
     sql_content |-> None, columns |-> <<>>, rows |-> <<>>, fetches |-> <<>>,
     fetch_failed |-> 0, payloads |-> <<>>, result |-> NoResult, exc |-> None,
     failed_in |-> None]

----------------------------------------------------------------------------
(* The programs around the client: their state before they run *)

\* pd.DataFrame(): no columns, no rows.
EmptyFrame == [columns |-> <<>>, rows |-> <<>>, numeric |-> {}]

\* No event of the Gradio interface has been handled.
NoTurn == [event |-> None]

\* The Databricks app is loaded (conv_state = gr.State(value=None), the
\* components are empty); results = [] and sections = [] before the loops;
\* the graph is at its entry point.
ScriptInit ==
    /\ chatbot = <<>>
    /\ sql_output = ""
    /\ data_table = EmptyFrame
    /\ chart_output = None
    /\ conv_state = None
    /\ turn = NoTurn
    /\ results = <<>>
    /\ bq = 0
    /\ answers = <<>>
    /\ sections = <<>>
    /\ rq = 0
    /\ outcomes = <<>>
    /\ node = "__start__"
    /\ messages = <<>>

----------------------------------------------------------------------------
(* The Teams bot, src/01-teams-bot/src/app.py: its state *)

\* Teams conversation ids (turn_context.activity.conversation.id).
Threads == {"th1", "th2"}

NoActivity == [type |-> None, thread |-> None, text |-> None]

\* The module is loaded: _conv_map = {}, no activity is being handled.  An
\* absent key of _conv_map is None, which is what _conv_map.get returns.
BotInit ==
    /\ conv_map = [t \in Threads |-> None]
    /\ bpc = "idle"
    /\ activity = NoActivity
    /\ genie_conv_id = None
    /\ replies = <<>>
    /\ before = [t \in Threads |-> None]
    /\ asked = 0
    /\ reset_last = {}
    /\ self = "A"
    /\ other = NoFrame
    /\ waiting = <<>>
    /\ ScriptInit

----------------------------------------------------------------------------
(* GenieClient *)

\* __init__: host, space_id, and the session with its two headers.
NewClient ==
    [host |-> "https://host", space_id |-> "space",
     headers |-> [Authorization |-> "Bearer token", ContentType |-> "application/json"]]

----------------------------------------------------------------------------
(* ask *)

Init ==
    /\ pc = "idle"
    /\ question = None
    /\ conversation_id = None
    /\ submits = <<>>
    /\ conv_id = None
    /\ msg_id = None
    /\ interval = 0
    /\ elapsed = 0
    /\ slept = 0
    /\ nPolls = 0
    /\ data = NoData
    /\ idx = 0
    /\ text_content = None
    /\ sql_content = None
    /\ columns = <<>>
    /\ rows = <<>>
    /\ fetches = <<>>
    /\ fetch_failed = 0
    /\ payloads = <<>>
    /\ result = NoResult
    /\ exc = None
    /\ failed_in = None
    /\ client = NewClient
    /\ BotInit

\* The branch taken were the test `conversation_id is not None`.
AskBranchNotNone(cid) == IF cid # None THEN "follow_up" ELSE "start_conversation"

\* The branch of ask: follow up when conversation_id is true.
AskBranch(cid) == IF Truthy(cid) THEN "follow_up" ELSE "start_conversation"

\* ask(q, cid) is called; the previous call, if any, is over.
AskCall(q, cid) ==
    /\ pc \in {"idle", "returned", "raised"}
    /\ pc' = AskBranch(cid)
    /\ question' = q
    /\ conversation_id' = cid
    /\ submits' = <<>>
    /\ conv_id' = None
    /\ msg_id' = None
    /\ interval' = 0
    /\ elapsed' = 0
    /\ slept' = 0
    /\ nPolls' = 0
    /\ data' = NoData
    /\ idx' = 0
    /\ text_content' = None
    /\ sql_content' = None
    /\ columns' = <<>>
    /\ rows' = <<>>
    /\ fetches' = <<>>
    /\ fetch_failed' = 0
    /\ payloads' = <<>>
    /\ result' = NoResult
    /\ exc' = None
    /\ failed_in' = None
    /\ UNCHANGED client

\* A caller with no state of its own calls ask(q, cid).
Ask(q, cid) == AskCall(q, cid) /\ UNCHANGED callerVars

\* Entering _poll: interval and elapsed are initialised.
EnterPoll(cid, mid) ==
    /\ pc' = "poll_test"
    /\ conv_id' = cid
    /\ msg_id' = mid
    /\ interval' = POLL_INTERVAL_INITIAL
    /\ elapsed' = 0
    /\ UNCHANGED <<slept, nPolls>>

\* The exception is wrapped in an error kind of its phase.
RaiseWrapped(f, ph) ==
    /\ pc' = "raised"
    /\ exc' = IF ph = "submit" THEN "SubmissionError" ELSE "PollError"
    /\ failed_in' = ph

\* The request of phase ph fails with f: the exception leaves ask.
Raise(f, ph) ==
    /\ pc' = "raised"
    /\ exc' = f
    /\ failed_in' = ph

\* POST {host}/api/2.0/genie/spaces/{space_id}/start-conversation
StartRequest(q) ==
    [host |-> client.host, space_id |-> client.space_id, kind |-> "start-conversation",
     conversation_id |-> None, content |-> q]

\* The conversation id of the response is kept on the client object.
StartConversationOkRemembering(r) ==
    /\ pc = "start_conversation"
    /\ submits' = Append(submits, StartRequest(question))
    /\ EnterPoll(GetOr(r.conversation_id, ""), PyOr(r.message_id, GetOr(r.id, "")))
    /\ client' = [host |-> client.host, space_id |-> client.space_id,
                  headers |-> client.headers,
                  conversation_id |-> GetOr(r.conversation_id, "")]
    /\ UNCHANGED <<callerVars, question, conversation_id, result, exc, failed_in>>
    /\ UNCHANGED parseVars

\* _start_conversation: POST start-conversation, then _poll.
StartConversationOk(r) ==
    /\ pc = "start_conversation"
    /\ submits' = Append(submits, StartRequest(question))
    /\ EnterPoll(GetOr(r.conversation_id, ""), PyOr(r.message_id, GetOr(r.id, "")))
    /\ UNCHANGED <<callerVars, client, question, conversation_id, result, exc, failed_in>>
    /\ UNCHANGED parseVars

\* The failed POST goes unnoticed (no raise_for_status): _poll is entered.
StartConversationFailIgnored(f) ==
    /\ pc = "start_conversation"
    /\ submits' = Append(submits, StartRequest(question))
    /\ EnterPoll("", "")
    /\ failed_in' = "submit"
    /\ UNCHANGED <<callerVars, client, question, conversation_id, result, exc>>
    /\ UNCHANGED parseVars

StartConversationFail(f) ==
    /\ pc = "start_conversation"
    /\ submits' = Append(submits, StartRequest(question))
    /\ Raise(f, "submit")
    /\ UNCHANGED <<callerVars, client, question, conversation_id, result>>
    /\ UNCHANGED pollVars
    /\ UNCHANGED parseVars

\* POST {host}/api/2.0/genie/spaces/{space_id}/conversations/{cid}/messages
FollowUpRequest(cid, q) ==
    [host |-> client.host, space_id |-> client.space_id, kind |-> "messages",
     conversation_id |-> cid, content |-> q]

\* _follow_up: POST conversations/{conversation_id}/messages, then _poll.
FollowUpOk(r) ==
    /\ pc = "follow_up"
    /\ submits' = Append(submits, FollowUpRequest(conversation_id, question))
    /\ EnterPoll(conversation_id, GetOr(r.id, ""))
    /\ UNCHANGED <<callerVars, client, question, conversation_id, result, exc, failed_in>>
    /\ UNCHANGED parseVars

FollowUpFail(f) ==
    /\ pc = "follow_up"
    /\ submits' = Append(submits, FollowUpRequest(conversation_id, question))
    /\ Raise(f, "submit")
    /\ UNCHANGED <<callerVars, client, question, conversation_id, result>>
    /\ UNCHANGED pollVars
    /\ UNCHANGED parseVars

----------------------------------------------------------------------------
(* _poll *)

\* A backoff that doubles the delay.
BackoffDoubling(i) == Min(i * 2, POLL_INTERVAL_MAX)

\* The loop test counts the sleep to come: while elapsed + interval < POLL_TIMEOUT.
WaitingAhead(e) == e + interval < POLL_TIMEOUT

\* while elapsed < POLL_TIMEOUT
Waiting(e) == e < POLL_TIMEOUT

\* The delay is not added to elapsed.
ElapsedForgotten(e, i) == e

\* elapsed += interval
ElapsedAfter(e, i) == e + i

\* interval = min(interval * 1.5, POLL_INTERVAL_MAX)
Backoff(i) == Min((i * 3) \div 2, POLL_INTERVAL_MAX)

\* The loop test holds: sleep, and add the delay to elapsed.
PollSleep ==
    /\ pc = "poll_test"
    /\ Waiting(elapsed)
    /\ slept' = interval
    /\ elapsed' = ElapsedAfter(elapsed, interval)
    /\ pc' = "poll_get"
    /\ UNCHANGED <<conv_id, msg_id, interval, nPolls, result, exc, failed_in>>
    /\ UNCHANGED callVars
    /\ UNCHANGED parseVars

\* The loop test fails and a timeout exception is raised.
PollTimeoutRaises ==
    /\ pc = "poll_test"
    /\ ~Waiting(elapsed)
    /\ pc' = "raised"
    /\ exc' = "TimeoutError"
    /\ UNCHANGED <<result, failed_in>>
    /\ UNCHANGED callVars
    /\ UNCHANGED pollVars
    /\ UNCHANGED parseVars

\* The TIMEOUT result is returned without the ids of the conversation.
PollTimeoutNoIds ==
    /\ pc = "poll_test"
    /\ ~Waiting(elapsed)
    /\ result' = GenieResult("TIMEOUT", None, None, <<>>, <<>>, TIMEOUT_ERROR,
                             None, None)
    /\ pc' = "returned"
    /\ UNCHANGED <<exc, failed_in>>
    /\ UNCHANGED callVars
    /\ UNCHANGED pollVars
    /\ UNCHANGED parseVars

\* The loop test fails: the TIMEOUT result is returned.
PollTimeout ==
    /\ pc = "poll_test"
    /\ ~Waiting(elapsed)
    /\ result' = GenieResult("TIMEOUT", None, None, <<>>, <<>>, TIMEOUT_ERROR,
                             conv_id, msg_id)
    /\ pc' = "returned"
    /\ UNCHANGED <<exc, failed_in>>
    /\ UNCHANGED callVars
    /\ UNCHANGED pollVars
    /\ UNCHANGED parseVars

\* One more status poll is counted.
Polled(n) == Min(n + 1, PollCountCap)

\* GET message fails and the failure is taken for a pending status.
PollGetFailRetried(f) ==
    /\ pc = "poll_get"
    /\ nPolls' = Polled(nPolls)
    /\ interval' = Backoff(interval)
    /\ failed_in' = "poll"
    /\ pc' = "poll_test"
    /\ UNCHANGED <<conv_id, msg_id, elapsed, slept, result, exc>>
    /\ UNCHANGED callVars
    /\ UNCHANGED parseVars

\* GET message fails: the exception leaves _poll.
PollGetFail(f) ==
    /\ pc = "poll_get"
    /\ nPolls' = Polled(nPolls)
    /\ Raise(f, "poll")
    /\ UNCHANGED <<conv_id, msg_id, interval, elapsed, slept, result>>
    /\ UNCHANGED callVars
    /\ UNCHANGED parseVars

\* GET message answers a status that is not terminal, and _parse_response
\* is entered all the same.
PollGetPendingParsed(s) ==
    /\ pc = "poll_get"
    /\ GetOr(s, "") \notin TerminalStatuses
    /\ nPolls' = Polled(nPolls)
    /\ data' = Response(GetOr(s, "UNKNOWN"), None, <<>>)
    /\ pc' = "parse"
    /\ UNCHANGED <<conv_id, msg_id, interval, elapsed, slept, result, exc, failed_in>>
    /\ UNCHANGED callVars
    /\ UNCHANGED <<idx, text_content, sql_content, columns, rows, fetches, fetch_failed,
                   payloads>>

\* GET message answers a status that is not terminal: back off.
PollGetPending(s) ==
    /\ pc = "poll_get"
    /\ GetOr(s, "") \notin TerminalStatuses
    /\ nPolls' = Polled(nPolls)
    /\ interval' = Backoff(interval)
    /\ pc' = "poll_test"
    /\ UNCHANGED <<conv_id, msg_id, elapsed, slept, result, exc, failed_in>>
    /\ UNCHANGED callVars
    /\ UNCHANGED parseVars

\* GET message answers a terminal status: _parse_response is entered.
PollGetTerminal(d) ==
    /\ pc = "poll_get"
    /\ d.status \in TerminalStatuses
    /\ nPolls' = Polled(nPolls)
    /\ data' = d
    /\ idx' = 0
    /\ text_content' = None
    /\ sql_content' = None
    /\ columns' = <<>>
    /\ rows' = <<>>
    /\ pc' = "parse"
    /\ UNCHANGED <<conv_id, msg_id, interval, elapsed, slept, fetches, fetch_failed,
                   payloads, result, exc, failed_in>>
    /\ UNCHANGED callVars

----------------------------------------------------------------------------
(* _parse_response *)

\* text_content is assigned for every attachment, with or without text.
TextAfterOverwrite(att, t) == att.text

\* if att.get("text"): text_content = att["text"].get("content", "")
TextAfter(att, t) == IF att.text # None THEN att.text ELSE t

\* if att.get("query"): sql_content = att["query"].get("query", "")
SqlAfter(att, q) == IF att.query # None THEN att.query ELSE q

\* The fetch is issued for every attachment that carries an id.
FetchesAnyStatus(att, status) == Truthy(att.attachment_id)

\* The fetch is issued for every attachment of a COMPLETED response.
FetchesNoIdTest(att, status) == status = "COMPLETED"

\* if att_id and status == "COMPLETED"
Fetches(att, status) == Truthy(att.attachment_id) /\ status = "COMPLETED"

\* One pass of the loop over an attachment that needs no fetch.
ParseAttachment ==
    /\ pc = "parse"
    /\ idx < Len(data.attachments)
    /\ LET att == data.attachments[idx + 1] IN
         /\ ~Fetches(att, data.status)
         /\ text_content' = TextAfter(att, text_content)
         /\ sql_content' = SqlAfter(att, sql_content)
    /\ idx' = idx + 1
    /\ UNCHANGED <<pc, data, columns, rows, fetches, fetch_failed, payloads,
                   result, exc, failed_in>>
    /\ UNCHANGED callVars
    /\ UNCHANGED pollVars

\* One pass of the loop whose query-result fetch answers qr.
ParseAttachmentFetched(qr) ==
    /\ pc = "parse"
    /\ idx < Len(data.attachments)
    /\ LET att == data.attachments[idx + 1] IN
         /\ Fetches(att, data.status)
         /\ text_content' = TextAfter(att, text_content)
         /\ sql_content' = SqlAfter(att, sql_content)
         /\ fetches' = Append(fetches, att.attachment_id)
    /\ columns' = qr.columns
    /\ rows' = qr.rows
    /\ payloads' = Append(payloads, Fetched(qr))
    /\ idx' = idx + 1
    /\ UNCHANGED <<pc, data, fetch_failed, result, exc, failed_in>>
    /\ UNCHANGED callVars
    /\ UNCHANGED pollVars

\* One pass of the loop whose query-result fetch raises f, without the
\* try/except: the exception leaves ask.
ParseAttachmentFetchFailRaises(f) ==
    /\ pc = "parse"
    /\ idx < Len(data.attachments)
    /\ LET att == data.attachments[idx + 1] IN
         /\ Fetches(att, data.status)
         /\ text_content' = TextAfter(att, text_content)
         /\ sql_content' = SqlAfter(att, sql_content)
         /\ fetches' = Append(fetches, att.attachment_id)
    /\ fetch_failed' = fetch_failed + 1
    /\ payloads' = Append(payloads, NotFetched)
    /\ pc' = "raised"
    /\ exc' = f
    /\ UNCHANGED <<idx, data, columns, rows, result, failed_in>>
    /\ UNCHANGED callVars
    /\ UNCHANGED pollVars

\* One pass of the loop whose query-result fetch raises f: columns and rows
\* are emptied.
ParseAttachmentFetchFailClears(f) ==
    /\ pc = "parse"
    /\ idx < Len(data.attachments)
    /\ LET att == data.attachments[idx + 1] IN
         /\ Fetches(att, data.status)
         /\ text_content' = TextAfter(att, text_content)
         /\ sql_content' = SqlAfter(att, sql_content)
         /\ fetches' = Append(fetches, att.attachment_id)
    /\ fetch_failed' = fetch_failed + 1
    /\ payloads' = Append(payloads, NotFetched)
    /\ columns' = <<>>
    /\ rows' = <<>>
    /\ idx' = idx + 1
    /\ UNCHANGED <<pc, data, result, exc, failed_in>>
    /\ UNCHANGED callVars
    /\ UNCHANGED pollVars

\* One pass of the loop whose query-result fetch raises f: the exception is
\* logged and dropped.
ParseAttachmentFetchFail(f) ==
    /\ pc = "parse"
    /\ idx < Len(data.attachments)
    /\ LET att == data.attachments[idx + 1] IN
         /\ Fetches(att, data.status)
         /\ text_content' = TextAfter(att, text_content)
         /\ sql_content' = SqlAfter(att, sql_content)
         /\ fetches' = Append(fetches, att.attachment_id)
    /\ fetch_failed' = fetch_failed + 1
    /\ payloads' = Append(payloads, NotFetched)
    /\ idx' = idx + 1
    /\ UNCHANGED <<pc, data, columns, rows, result, exc, failed_in>>
    /\ UNCHANGED callVars
    /\ UNCHANGED pollVars

\* The result never carries the remote's error.
ErrorOfDropped(e) == None

\* error=str(error) if error else None
ErrorOf(e) == IF Truthy(e) THEN e ELSE None

\* The result is built but not returned: the poll loop goes on.
ParseReturnFallsThrough ==
    /\ pc = "parse"
    /\ idx = Len(data.attachments)
    /\ result' = GenieResult(data.status, text_content, sql_content, columns, rows,
                             ErrorOf(data.error), conv_id, msg_id)
    /\ pc' = "poll_test"
    /\ UNCHANGED <<exc, failed_in>>
    /\ UNCHANGED callVars
    /\ UNCHANGED pollVars
    /\ UNCHANGED parseVars

\* The loop is over: the result is built and returned.
ParseReturn ==
    /\ pc = "parse"
    /\ idx = Len(data.attachments)
    /\ result' = GenieResult(data.status, text_content, sql_content, columns, rows,
                             ErrorOf(data.error), conv_id, msg_id)
    /\ pc' = "returned"
    /\ UNCHANGED <<exc, failed_in>>
    /\ UNCHANGED callVars
    /\ UNCHANGED pollVars
    /\ UNCHANGED parseVars

----------------------------------------------------------------------------
(* Specifications *)

\* The steps of a call that is under way.
Step ==
    \/ \E r \in SubmitResponses : StartConversationOk(r)
    \/ \E f \in Failures : StartConversationFail(f)
    \/ \E r \in SubmitResponses : FollowUpOk(r)
    \/ \E f \in Failures : FollowUpFail(f)
    \/ PollSleep
    \/ PollTimeout
    \/ \E f \in Failures : PollGetFail(f)
    \/ \E s \in NonTerminalStatuses : PollGetPending(s)
    \/ \E d \in PollResponses : PollGetTerminal(d)
    \/ ParseAttachment
    \/ \E qr \in QueryResults : ParseAttachmentFetched(qr)
    \/ \E f \in Failures : ParseAttachmentFetchFail(f)
    \/ ParseReturn

Next ==
    \/ \E q \in Questions, cid \in {None, ""} \cup ConvIds : Ask(q, cid)
    \/ Step

Spec == Init /\ [][Next]_vars

\* A call that is under way keeps running, and every request is answered.
LiveSpec == Spec /\ WF_vars(Step)

\* _parse_response applied to a terminal response: the state in which the
\* first status poll of ask("q1", None) has answered d.
ParseInit ==
    /\ client = NewClient
    /\ BotInit
    /\ pc = "parse"
    /\ question = "q1"
    /\ conversation_id = None
    /\ submits = <<StartRequest("q1")>>
    /\ conv_id = "c1"
    /\ msg_id = "m1"
    /\ interval = POLL_INTERVAL_INITIAL
    /\ elapsed = POLL_INTERVAL_INITIAL
    /\ slept = POLL_INTERVAL_INITIAL
    /\ nPolls = 1
    /\ data \in ParseResponses
    /\ idx = 0
    /\ text_content = None
    /\ sql_content = None
    /\ columns = <<>>
    /\ rows = <<>>
    /\ fetches = <<>>
    /\ fetch_failed = 0
    /\ payloads = <<>>
    /\ result = NoResult
    /\ exc = None
    /\ failed_in = None

ParseNext ==
    \/ ParseAttachment
    \/ \E qr \in QueryResults : ParseAttachmentFetched(qr)
    \/ \E f \in Failures : ParseAttachmentFetchFail(f)
    \/ ParseReturn

ParseSpec == ParseInit /\ [][ParseNext]_vars

----------------------------------------------------------------------------
(* The phase of a call, from its position *)

Phase ==
    CASE pc = "idle" -> "IDLE"
      [] pc \in {"start_conversation", "follow_up"} -> "SUBMITTED"
      [] pc \in {"poll_test", "poll_get"} -> "POLLING"
      [] pc = "parse" -> data.status
      [] pc = "returned" -> result.status
      [] pc = "raised" -> "RAISED"

Outcomes == {"COMPLETED", "FAILED", "CANCELLED", "TIMEOUT"}

----------------------------------------------------------------------------
(* C1 *)

\* The submit request the call has issued, once it has issued it.
Submitted == pc \notin {"idle", "start_conversation", "follow_up"}

\* C1 as stated: a call issues exactly one submit, a start-conversation
\* request with the question when conversation_id is None and otherwise a
\* follow-up message against the given conversation_id.
C1_AsStated ==
    /\ Len(submits) <= 1
    /\ Submitted =>
         /\ Len(submits) = 1
         /\ submits[1] = IF conversation_id = None
                          THEN StartRequest(question)
                          ELSE FollowUpRequest(conversation_id, question)

\* C1, amended: a call issues exactly one submit, a start-conversation
\* request with the question when conversation_id is None or the empty
\* string, and otherwise a follow-up message with the question against
\* exactly the given conversation_id.
C1_OneSubmit ==
    /\ Len(submits) <= 1
    /\ Submitted =>
         /\ Len(submits) = 1
         /\ submits[1] = IF conversation_id \in {None, ""}
                          THEN StartRequest(question)
                          ELSE FollowUpRequest(conversation_id, question)

C1_Witness ==
    /\ pc = "returned"
    /\ conversation_id = "c2"
    /\ submits = <<FollowUpRequest("c2", "q2")>>

----------------------------------------------------------------------------
(* C2 *)

PhaseOrder ==
    {<<"IDLE", "SUBMITTED">>, <<"SUBMITTED", "POLLING">>, <<"SUBMITTED", "RAISED">>,
     <<"POLLING", "RAISED">>, <<"RAISED", "SUBMITTED">>}
    \cup {<<"POLLING", o>> : o \in Outcomes}
    \cup {<<o, "SUBMITTED">> : o \in Outcomes}

\* C2: the phase of a call changes only along SUBMITTED -> POLLING -> one of
\* COMPLETED, FAILED, CANCELLED, TIMEOUT (or the call raises, and the next
\* call starts at SUBMITTED); a status poll is issued only in POLLING, after
\* the submit was answered; a query-result fetch is issued only after a
\* terminal status was polled.
C2_PhaseOrder ==
    [][/\ Phase' # Phase => <<Phase, Phase'>> \in PhaseOrder
       /\ nPolls' > nPolls =>
            /\ Phase = "POLLING"
            /\ Len(submits) = 1
            /\ failed_in = None
            /\ data = NoData
       /\ Len(fetches') > Len(fetches) =>
            /\ Phase \in TerminalStatuses
            /\ Phase' = Phase
            /\ nPolls' = nPolls
            /\ nPolls >= 1]_vars

C2_Witness ==
    /\ pc = "returned"
    /\ result.status = "COMPLETED"
    /\ Len(fetches) = 1
    /\ nPolls = 3

----------------------------------------------------------------------------
(* C3 *)

\* The delays of the claim: 1, 1.5, 2.25, 3.375, 5.0625, 7.59, 10, 10, ...
StatedDelay(k) ==
    CASE k = 1 -> Unit
      [] k = 2 -> (15 * Unit) \div 10
      [] k = 3 -> (225 * Unit) \div 100
      [] k = 4 -> (3375 * Unit) \div 1000
      [] k = 5 -> (50625 * Unit) \div 10000
      [] k = 6 -> (759 * Unit) \div 100
      [] OTHER -> 10 * Unit

\* The same with the sixth delay 7.59375.
ExactDelay(k) == IF k = 6 THEN (759375 * Unit) \div 100000 ELSE StatedDelay(k)

\* C3 as stated: the delay slept before the k-th status poll is the k-th of
\* 1, 1.5, 2.25, 3.375, 5.0625, 7.59, 10, 10, ..., and is at most 10.
C3_AsStated ==
    pc = "poll_get" => slept = StatedDelay(nPolls + 1) /\ slept <= 10 * Unit

\* C3, amended: the delay slept before the k-th status poll is the k-th of
\* 1, 1.5, 2.25, 3.375, 5.0625, 7.59375, 10, 10, ..., and is at most 10.
C3_Delays ==
    pc = "poll_get" => slept = ExactDelay(nPolls + 1) /\ slept <= 10 * Unit

C3_Witness ==
    /\ pc = "poll_get"
    /\ nPolls = 8
    /\ slept = 10 * Unit

----------------------------------------------------------------------------
(* C4 *)

Done == pc \in {"returned", "raised"}

\* C4 as stated: a call whose slept delays sum to more than 300 before a
\* terminal status was polled returns a TIMEOUT result and does not raise.
\* (elapsed grows only while no terminal status has been polled.)
C4_AsStated ==
    (Done /\ elapsed > POLL_TIMEOUT) => (pc = "returned" /\ result.status = "TIMEOUT")

\* C4, amended: when the slept delays sum to more than 300 and the status
\* poll issued after the last sleep has answered, without failure, a status
\* that is not terminal, the call returns a TIMEOUT result and does not raise.
C4_Timeout ==
    [][(pc = "poll_test" /\ elapsed > POLL_TIMEOUT) =>
           (pc' = "returned" /\ result'.status = "TIMEOUT" /\ exc' = None)]_vars

C4_Witness ==
    /\ pc = "returned"
    /\ result.status = "TIMEOUT"
    /\ exc = None
    /\ elapsed > POLL_TIMEOUT

----------------------------------------------------------------------------
(* C5 *)

\* C5: a TIMEOUT result carries the conversation id and message id with
\* which _poll was entered (the conversation id passed to ask, for a
\* follow-up), the fixed error message, no text, no sql, no columns and no
\* rows, and no query-result fetch was issued.
C5_TimeoutResult ==
    (pc = "returned" /\ result.status = "TIMEOUT") =>
        /\ result.conversation_id = conv_id
        /\ result.message_id = msg_id
        /\ submits[1].kind = "messages" => result.conversation_id = conversation_id
        /\ result.error = TIMEOUT_ERROR
        /\ result.text = None
        /\ result.sql = None
        /\ result.columns = <<>>
        /\ result.rows = <<>>
        /\ fetches = <<>>

C5_Witness ==
    /\ pc = "returned"
    /\ result.status = "TIMEOUT"
    /\ conversation_id = "c2"
    /\ result.conversation_id = "c2"
    /\ result.message_id = "m2"

----------------------------------------------------------------------------
(* C6 *)

Running == pc \in {"start_conversation", "follow_up", "poll_test", "poll_get", "parse"}

\* C6: every call of ask ends, by a result or by an exception, whatever the
\* remote service answers.
C6_Terminates == Running ~> Done

C6_Witness ==
    /\ pc = "returned"
    /\ result.status = "TIMEOUT"
    /\ nPolls = 34

----------------------------------------------------------------------------
(* C7 *)

\* C7: when the submit request fails, ask has raised: the call issued that
\* one submit, no status poll and no query-result fetch, and returned no
\* result.
C7_SubmitFailure ==
    failed_in = "submit" =>
        /\ pc = "raised"
        /\ exc # None
        /\ Len(submits) = 1
        /\ nPolls = 0
        /\ fetches = <<>>
        /\ result = NoResult

C7_Witness ==
    /\ failed_in = "submit"
    /\ pc = "raised"
    /\ conversation_id = "c1"
    /\ exc = "HTTPError"

----------------------------------------------------------------------------
(* C8 *)

\* C8: when a status poll fails, whichever it is, ask has raised: the
\* failed poll is the last request of the call, no query-result fetch was
\* issued and no result is returned.
C8_PollFailure ==
    failed_in = "poll" =>
        /\ pc = "raised"
        /\ exc # None
        /\ nPolls >= 1
        /\ data = NoData
        /\ fetches = <<>>
        /\ result = NoResult

C8_Witness ==
    /\ failed_in = "poll"
    /\ pc = "raised"
    /\ nPolls = 34
    /\ exc = "ConnectionError"

----------------------------------------------------------------------------
(* C9 *)

----------------------------------------------------------------------------
(* C10 *)

OnlyText(att) == att.text # None /\ att.query = None
OnlyQuery(att) == att.query # None /\ att.text = None

\* C10: when a COMPLETED response has two attachments, one with text only
\* and one with a query only, in either order, the result has that text
\* and that query.
C10_Merged ==
    (pc = "returned" /\ result.status = "COMPLETED" /\ Len(data.attachments) = 2) =>
        \A i, j \in 1..2 :
            (i # j /\ OnlyText(data.attachments[i]) /\ OnlyQuery(data.attachments[j])) =>
                /\ result.text = data.attachments[i].text
                /\ result.sql = data.attachments[j].query

C10_Witness ==
    /\ pc = "returned"
    /\ result.status = "COMPLETED"
    /\ data.attachments = <<Attachment(None, "s1", "a1"), Attachment("t1", None, None)>>
    /\ result.text = "t1"
    /\ result.sql = "s1"

----------------------------------------------------------------------------
(* C11 *)

\* The indices of the attachments whose text, or query, is present and
\* non-empty.
WithText(atts) == {i \in 1..Len(atts) : Truthy(atts[i].text)}
WithQuery(atts) == {i \in 1..Len(atts) : Truthy(atts[i].query)}

Last(I) == CHOOSE i \in I : \A j \in I : j <= i

\* C11: the result's text is the last non-empty text and its sql the last
\* non-empty query among the attachments, in the order supplied; a text or
\* query that is present but empty does not replace an earlier non-empty one.
C11_LastNonEmpty ==
    (pc = "returned" /\ result.status \in TerminalStatuses) =>
        LET atts == data.attachments IN
            /\ WithText(atts) # {} => result.text = atts[Last(WithText(atts))].text
            /\ WithQuery(atts) # {} => result.sql = atts[Last(WithQuery(atts))].query

----------------------------------------------------------------------------
(* C12 *)

\* The attachment ids a response carries.
AttachmentIds(d) ==
    {d.attachments[i].attachment_id : i \in 1..Len(d.attachments)} \ {None, ""}

\* C12: a query-result fetch is issued only for a COMPLETED response and for
\* an attachment id it carries; a FAILED, CANCELLED or TIMEOUT outcome, and a
\* COMPLETED response without such an attachment, come with no fetch and with
\* empty columns and rows.
C12_FetchOnlyCompleted ==
    /\ \A i \in 1..Len(fetches) :
           data.status = "COMPLETED" /\ fetches[i] \in AttachmentIds(data)
    /\ (pc = "returned" /\ (result.status \in {"FAILED", "CANCELLED", "TIMEOUT"}
                            \/ AttachmentIds(data) = {})) =>
           /\ fetches = <<>>
           /\ result.columns = <<>>
           /\ result.rows = <<>>

C12_Witness ==
    /\ pc = "returned"
    /\ result.status = "FAILED"
    /\ AttachmentIds(data) = {"a1"}
    /\ fetches = <<>>
    /\ result.sql = "s1"

----------------------------------------------------------------------------
(* C13 *)

\* C13: a call issues at most one query-result fetch, whatever the number of
\* attachments of the COMPLETED response.
C13_AtMostOneFetch == Len(fetches) <= 1

----------------------------------------------------------------------------
(* C14 *)

\* The text, and the query, gathered from the attachments: that of the last
\* attachment that has one, None when no attachment has one.
GatheredText(atts) ==
    LET I == {i \in 1..Len(atts) : atts[i].text # None} IN
        IF I = {} THEN None ELSE atts[Last(I)].text

GatheredSql(atts) ==
    LET I == {i \in 1..Len(atts) : atts[i].query # None} IN
        IF I = {} THEN None ELSE atts[Last(I)].query

----------------------------------------------------------------------------
(* C15 *)

Unsuccessful == {"FAILED", "CANCELLED"}

\* C15 as stated: every FAILED or CANCELLED result has its error set.
C15_AsStated ==
    (pc = "returned" /\ result.status \in Unsuccessful) =>
        /\ result.error # None
        /\ result.error = data.error
        /\ result.text = GatheredText(data.attachments)
        /\ result.sql = GatheredSql(data.attachments)

\* C15: a FAILED or CANCELLED result carries the remote response's error when
\* the response has a non-empty one and no error otherwise, and keeps the
\* text and sql of the attachments.
C15_ErrorCopied ==
    (pc = "returned" /\ result.status \in Unsuccessful) =>
        /\ Truthy(data.error) => result.error = data.error
        /\ ~Truthy(data.error) => result.error = None
        /\ result.text = GatheredText(data.attachments)
        /\ result.sql = GatheredSql(data.attachments)

C15_Witness ==
    /\ pc = "returned"
    /\ result.status = "FAILED"
    /\ data.error = "e1"
    /\ result.error = "e1"
    /\ result.text = "t1"

----------------------------------------------------------------------------
(* C16 *)

\* C16: every COMPLETED result has its error unset, whatever the remote
\* response contained.
C16_CompletedNoError ==
    (pc = "returned" /\ result.status = "COMPLETED") => result.error = None

----------------------------------------------------------------------------
(* C17 *)

\* C17: the conversation_id a call without a token returns, once set, is
\* non-empty; a call given a token sends its follow-up to that conversation
\* and returns a result carrying the same conversation_id.
C17_RoundTrip ==
    /\ (pc = "returned" /\ ~Truthy(conversation_id) /\ result.conversation_id # None) =>
           Truthy(result.conversation_id)
    /\ (Submitted /\ Truthy(conversation_id)) =>
           submits = <<FollowUpRequest(conversation_id, question)>>
    /\ (pc = "returned" /\ Truthy(conversation_id)) =>
           result.conversation_id = conversation_id

----------------------------------------------------------------------------
(* C18 *)

\* C18: every returned result, whatever its status, carries the non-empty id
\* of the conversation; a call whose submit failed yields no result, hence no
\* conversation_id.
C18_TokenIffSubmitted ==
    /\ pc = "returned" => Truthy(result.conversation_id)
    /\ (pc = "raised" /\ failed_in = "submit") => result.conversation_id = None

----------------------------------------------------------------------------
(* C19 *)

\* The terminal response of the scenario: COMPLETED, one attachment holding
\* only a text.
OnlyTextResponse == Response("COMPLETED", None, <<Attachment("t1", None, None)>>)

\* ask(question, None) whose start-conversation answer carried an id and
\* whose first status poll answered OnlyTextResponse.
FirstPollOnlyText ==
    /\ pc \in {"parse", "returned"}
    /\ conversation_id = None
    /\ Truthy(conv_id)
    /\ elapsed = POLL_INTERVAL_INITIAL
    /\ data = OnlyTextResponse

\* C19: in that scenario ask returns after exactly one status poll and no
\* query-result fetch, with status COMPLETED, the text, no sql, empty rows and
\* columns, no error, and a non-empty conversation_id.
C19_Scenario ==
    FirstPollOnlyText =>
        /\ nPolls = 1
        /\ fetches = <<>>
        /\ pc = "returned" =>
               /\ result = GenieResult("COMPLETED", "t1", None, <<>>, <<>>, None,
                                       conv_id, msg_id)
               /\ Truthy(result.conversation_id)

C19_Witness ==
    /\ FirstPollOnlyText
    /\ pc = "returned"
    /\ result.text = "t1"
    /\ result.conversation_id = "c1"

----------------------------------------------------------------------------
(* C20 *)

\* The state of a call at its entry, apart from its arguments.
FreshCall ==
    /\ submits = <<>>
    /\ conv_id = None /\ msg_id = None
    /\ interval = 0 /\ elapsed = 0 /\ slept = 0 /\ nPolls = 0
    /\ data = NoData /\ idx = 0
    /\ text_content = None /\ sql_content = None
    /\ columns = <<>> /\ rows = <<>>
    /\ fetches = <<>> /\ fetch_failed = 0
    /\ result = NoResult /\ exc = None /\ failed_in = None

CallEntry == pc \in {"idle", "returned", "raised"} /\ pc' \in {"start_conversation", "follow_up"}

\* C20: no step of a call changes the client's host, space_id or session
\* headers, and a call starts from the same state whatever calls preceded
\* it: its branch is chosen by its conversation_id argument alone.
C20_NoRetainedState ==
    [][/\ client' = client
       /\ CallEntry => (FreshCall' /\ pc' = AskBranch(conversation_id'))]_vars

C20_Witness ==
    /\ pc = "returned"
    /\ conversation_id = "c1"
    /\ result.conversation_id = "c1"
    /\ submits = <<FollowUpRequest("c1", question)>>
    /\ submits[1].host = NewClient.host
    /\ client = NewClient

----------------------------------------------------------------------------
(* C28 *)

\* 300.78125 seconds, which is 9625/32.
TimeoutElapsed == (9625 * Unit) \div 32

\* C28: a call issues at most 34 status polls; when _poll returns TIMEOUT the
\* delays slept add up to 300.78125, at least 300 and less than 300 plus the
\* cap of 10; the budget is tested before a sleep only, so the last poll is
\* issued with the budget of 300 already passed.
C28_PollBudget ==
    /\ nPolls <= 34
    /\ pc = "poll_get" => Waiting(elapsed - slept)
    /\ (pc = "returned" /\ result.status = "TIMEOUT") =>
           /\ nPolls = 34
           /\ elapsed = TimeoutElapsed
           /\ elapsed >= POLL_TIMEOUT
           /\ elapsed < POLL_TIMEOUT + POLL_INTERVAL_MAX
           /\ ~Waiting(elapsed) /\ Waiting(elapsed - slept)

\* The 34th poll is about to be issued, the budget already passed.
C28_Witness ==
    /\ pc = "poll_get"
    /\ nPolls = 33
    /\ elapsed = TimeoutElapsed
    /\ elapsed > POLL_TIMEOUT

----------------------------------------------------------------------------
(* C29 *)

\* C29: the status of every returned result is COMPLETED, FAILED, CANCELLED
\* or TIMEOUT; a status poll answering anything else (a missing, empty or
\* unrecognised status included) is followed by the loop test with the next
\* backoff delay and no result, and only a terminal status is ever parsed.
C29_StatusDomain ==
    /\ [](pc = "returned" => result.status \in TerminalStatuses \cup {"TIMEOUT"})
    /\ [](pc = "parse" => data.status \in TerminalStatuses)
    /\ [](\A s \in {None, "", "PENDING", "ERROR", "UNKNOWN"} :
              s \in NonTerminalStatuses /\ GetOr(s, "") \notin TerminalStatuses)
    /\ [][(pc = "poll_get" /\ pc' \notin {"parse", "raised"}) =>
              /\ pc' = "poll_test"
              /\ interval' = Backoff(interval)
              /\ elapsed' = elapsed
              /\ result' = NoResult]_vars

\* Two status polls answered a status that is not terminal.
C29_Witness ==
    /\ pc = "poll_test"
    /\ nPolls = 2
    /\ interval = Backoff(Backoff(POLL_INTERVAL_INITIAL))
    /\ result = NoResult

----------------------------------------------------------------------------
(* C30 *)

\* The ids of the attachments that carry one, in attachment order.
IdsInOrder(atts) ==
    LET ids == [i \in 1..Len(atts) |-> atts[i].attachment_id] IN
        SelectSeq(ids, Truthy)

Succeeded(ps) == {i \in 1..Len(ps) : ps[i].ok}

\* C30 as stated: columns and rows are empty only if every fetch failed.
C30_AsStated ==
    (pc = "returned" /\ result.status = "COMPLETED") =>
        /\ fetches = IdsInOrder(data.attachments)
        /\ Succeeded(payloads) # {} =>
               /\ result.columns = payloads[Last(Succeeded(payloads))].columns
               /\ result.rows = payloads[Last(Succeeded(payloads))].rows
        /\ (fetches # <<>> /\ result.columns = <<>> /\ result.rows = <<>>) =>
               Succeeded(payloads) = {}

\* C30: fetches are issued one per attachment that carries an id, in
\* attachment order; columns and rows are those of the last fetch that
\* succeeded, whatever failed after it, and are empty when every fetch failed.
C30_LastSuccessfulFetch ==
    (pc = "returned" /\ result.status = "COMPLETED") =>
        /\ fetches = IdsInOrder(data.attachments)
        /\ Len(payloads) = Len(fetches)
        /\ Succeeded(payloads) # {} =>
               /\ result.columns = payloads[Last(Succeeded(payloads))].columns
               /\ result.rows = payloads[Last(Succeeded(payloads))].rows
        /\ Succeeded(payloads) = {} =>
               /\ result.columns = <<>>
               /\ result.rows = <<>>

C30_Witness ==
    /\ pc = "returned"
    /\ result.status = "COMPLETED"
    /\ fetches = <<"a1", "a1">>
    /\ payloads = <<Fetched([columns |-> <<Col1>>, rows |-> <<Row1>>]), NotFetched>>
    /\ result.columns = <<Col1>>
    /\ result.rows = <<Row1>>

----------------------------------------------------------------------------
(* The Teams bot: _format_response *)

\* for row in result.rows[:20]
TABLE_ROWS == 20

\* One message sent with send_activity.  A reply is a kind, the detail the
\* kind is completed with, and the parts joined into an answer.
Reply(k, d, ps) == [kind |-> k, detail |-> d, parts |-> ps]

\* A part of an answer: the text, the SQL block, or the table with its
\* header, its lines and the note that follows them.
Part(k, c, h, ls, n) == [part |-> k, content |-> c, header |-> h, lines |-> ls, note |-> n]

Typing == Reply("typing", None, <<>>)
ResetReply == Reply("Started a new Genie conversation.", None, <<>>)
ErrorReply(e) == Reply("Genie API error", e, <<>>)
FailedReply(e) == Reply("Genie could not answer", e, <<>>)
TimeoutReply == Reply("The query is taking too long. Please try a simpler question.", None, <<>>)
EmptyReply == Reply("Genie returned an empty response.", None, <<>>)

\* Python's truth of a list.
NonEmpty(l) == l # <<>>

\* c.get("name", f"col_{i}"), i counted from 0.
ColName(c, i) ==
    IF c.name # None THEN c.name
    ELSE CASE i = 0 -> "col_0" [] i = 1 -> "col_1" [] OTHER -> "col_i"

Header(cols) == [i \in 1..Len(cols) |-> ColName(cols[i], i - 1)]

\* A line of the table: str(v) of every cell of a row that is a list.
Line(row) == [j \in 1..Len(row) |-> ToString(row[j])]

\* Every row is rendered: result.rows, not result.rows[:20].
FirstRowsAll(rws) == rws

\* result.rows[:20]
FirstRows(rws) == SubSeq(rws, 1, Min(Len(rws), TABLE_ROWS))

\* The table part: the header of the column names, a line for each of the
\* first 20 rows, and the count of all rows when there are more than 20.
TablePart(cols, rws) ==
    Part("table", None, Header(cols),
         [k \in 1..Len(FirstRows(rws)) |-> Line(FirstRows(rws)[k])],
         IF Len(rws) > TABLE_ROWS THEN Len(rws) ELSE 0)

\* The FAILED reply carries the text and sql parts as well.
FormatFailedWithParts(r) ==
    Reply("Genie could not answer", PyOr(r.error, "Unknown error"),
          IF Truthy(r.text) THEN <<Part("text", r.text, <<>>, <<>>, 0)>> ELSE <<>>)

\* if result.status == "FAILED": ... {result.error or 'Unknown error'}
FormatFailed(r) == FailedReply(PyOr(r.error, "Unknown error"))

\* parts, in the order they are appended.
Parts(r) ==
    (IF Truthy(r.text) THEN <<Part("text", r.text, <<>>, <<>>, 0)>> ELSE <<>>)
    \o (IF Truthy(r.sql) THEN <<Part("sql", r.sql, <<>>, <<>>, 0)>> ELSE <<>>)
    \o (IF NonEmpty(r.columns) /\ NonEmpty(r.rows)
        THEN <<TablePart(r.columns, r.rows)>> ELSE <<>>)

\* An answer without parts is sent as it is, empty.
FormatPartsNoFallback(ps) == Reply("answer", None, ps)

\* "\n\n".join(parts) if parts else "Genie returned an empty response."
FormatParts(ps) == IF NonEmpty(ps) THEN Reply("answer", None, ps) ELSE EmptyReply

\* A CANCELLED result is answered like a FAILED one, with its error.
FormatResponseCancelledAsFailed(r) ==
    IF r.status \in {"FAILED", "CANCELLED"} THEN FormatFailed(r)
    ELSE IF r.status = "TIMEOUT" THEN TimeoutReply
    ELSE FormatParts(Parts(r))

FormatResponse(r) ==
    IF r.status = "FAILED" THEN FormatFailed(r)
    ELSE IF r.status = "TIMEOUT" THEN TimeoutReply
    ELSE FormatParts(Parts(r))

----------------------------------------------------------------------------
(* The Teams bot: on_message *)

\* Texts of incoming activities: no text, blanks only, two questions (one
\* of them beginning like a command), and the reset commands as users may
\* type them.
ActivityTexts ==
    {None, "  ", "q1", " /reset now ", "/reset", " /Reset ", "/NEW", "New Conversation"}

ActivityKinds == {"message", "conversationUpdate"}

\* Messages with any of the texts, and activities of another kind.
Activities ==
    [type : {"message"}, thread : Threads, text : ActivityTexts]
    \cup [type : ActivityKinds \ {"message"}, thread : Threads, text : {None}]

\* str.strip on the texts above.
Strip(t) ==
    CASE t = "  " -> ""
      [] t = " /reset now " -> "/reset now"
      [] t = " /Reset " -> "/Reset"
      [] OTHER -> t

\* str.lower on the stripped texts.
Lower(t) ==
    CASE t = "/Reset" -> "/reset"
      [] t = "/NEW" -> "/new"
      [] t = "New Conversation" -> "new conversation"
      [] OTHER -> t

\* user_text = (turn_context.activity.text or "").strip()
UserText(a) == Strip(PyOr(a.text, ""))

ResetCommands == {"/reset", "/new", "new conversation"}

\* The activity is not a message, or has no text: on_message returns.
Ignored(a) == a.type # "message" \/ ~Truthy(UserText(a))

\* The reset test compares the text as typed.
IsResetCaseSensitive(a) == UserText(a) \in ResetCommands

\* if user_text.lower() in ("/reset", "/new", "new conversation")
IsReset(a) == Lower(UserText(a)) \in ResetCommands

\* on_message is entered with activity a: the history of the turn starts.
Arrives(a) ==
    /\ bpc = "idle"
    /\ activity' = a
    /\ before' = conv_map
    /\ asked' = 0
    /\ genie_conv_id' = None

ClientVars == <<pc, question, conversation_id, submits, client, result, exc, failed_in,
                pollVars, parseVars, self, other, waiting, scriptVars>>

\* An activity that is not a message, or a message without text.
BotIgnore(a) ==
    /\ Arrives(a)
    /\ Ignored(a)
    /\ replies' = <<>>
    /\ bpc' = "sent"
    /\ UNCHANGED <<conv_map, reset_last>>
    /\ UNCHANGED ClientVars

\* A reset command empties the whole map: _conv_map.clear().
BotResetClearsAll(a) ==
    /\ Arrives(a)
    /\ ~Ignored(a) /\ IsReset(a)
    /\ conv_map' = [t \in Threads |-> None]
    /\ replies' = <<ResetReply>>
    /\ reset_last' = reset_last \cup {a.thread}
    /\ bpc' = "sent"
    /\ UNCHANGED ClientVars

\* ask() is awaited: a reset command is handled while the call of another
\* handler is under way.
BotResetDuringAsk(a) ==
    /\ bpc = "asking"
    /\ ~Ignored(a) /\ IsReset(a)
    /\ conv_map' = [conv_map EXCEPT ![a.thread] = None]
    /\ reset_last' = reset_last \cup {a.thread}
    /\ UNCHANGED <<bpc, activity, genie_conv_id, replies, before, asked>>
    /\ UNCHANGED ClientVars

\* A reset command: the thread's entry is popped, the user is told.
BotReset(a) ==
    /\ Arrives(a)
    /\ ~Ignored(a) /\ IsReset(a)
    /\ conv_map' = [conv_map EXCEPT ![a.thread] = None]
    /\ replies' = <<ResetReply>>
    /\ reset_last' = reset_last \cup {a.thread}
    /\ bpc' = "sent"
    /\ UNCHANGED ClientVars

\* A question: the typing indicator is sent, the handler is suspended in
\* that send.
BotTyping(a) ==
    /\ Arrives(a)
    /\ ~Ignored(a) /\ ~IsReset(a)
    /\ replies' = <<Typing>>
    /\ bpc' = "typing"
    /\ UNCHANGED <<conv_map, reset_last>>
    /\ UNCHANGED ClientVars

\* ask is called with the id the map held when the activity arrived, read
\* before the typing indicator is sent.
BotAskStale ==
    /\ bpc = "typing"
    /\ genie_conv_id' = before[activity.thread]
    /\ AskCall(UserText(activity), before[activity.thread])
    /\ asked' = asked + 1
    /\ bpc' = "asking"
    /\ UNCHANGED <<conv_map, activity, replies, before, reset_last, self, other, waiting,
                   scriptVars>>

\* The typing indicator is sent: the thread's stored id is read and ask is
\* called, with no suspension in between.
BotAsk ==
    /\ bpc = "typing"
    /\ genie_conv_id' = conv_map[activity.thread]
    /\ AskCall(UserText(activity), conv_map[activity.thread])
    /\ asked' = asked + 1
    /\ bpc' = "asking"
    /\ UNCHANGED <<conv_map, activity, replies, before, reset_last, self, other, waiting,
                   scriptVars>>

\* The returned id is stored whatever it is.
StoredAlways(m, t, r) == [m EXCEPT ![t] = r.conversation_id]

\* if result.conversation_id: _conv_map[teams_conv_id] = result.conversation_id
Stored(m, t, r) == IF Truthy(r.conversation_id) THEN [m EXCEPT ![t] = r.conversation_id] ELSE m

\* ask returned: the id is stored, the formatted result is sent.
BotAskReturned ==
    /\ bpc = "asking"
    /\ pc = "returned"
    /\ conv_map' = Stored(conv_map, activity.thread, result)
    /\ replies' = Append(replies, FormatResponse(result))
    /\ reset_last' = reset_last \ {activity.thread}
    /\ bpc' = "sent"
    /\ UNCHANGED <<activity, genie_conv_id, before, asked>>
    /\ UNCHANGED ClientVars

\* ask raised: the session of the thread is dropped with the error reply.
BotAskRaisedDropsEntry ==
    /\ bpc = "asking"
    /\ pc = "raised"
    /\ conv_map' = [conv_map EXCEPT ![activity.thread] = None]
    /\ replies' = Append(replies, ErrorReply(exc))
    /\ reset_last' = reset_last \ {activity.thread}
    /\ bpc' = "sent"
    /\ UNCHANGED <<activity, genie_conv_id, before, asked>>
    /\ UNCHANGED ClientVars

\* ask raised: except Exception sends the error reply and returns.
BotAskRaised ==
    /\ bpc = "asking"
    /\ pc = "raised"
    /\ replies' = Append(replies, ErrorReply(exc))
    /\ reset_last' = reset_last \ {activity.thread}
    /\ bpc' = "sent"
    /\ UNCHANGED <<conv_map, activity, genie_conv_id, before, asked>>
    /\ UNCHANGED ClientVars

\* The locals of ask and of its helpers are gone.
CallOver ==
    /\ pc' = "idle"
    /\ question' = None /\ conversation_id' = None /\ submits' = <<>>
    /\ conv_id' = None /\ msg_id' = None
    /\ interval' = 0 /\ elapsed' = 0 /\ slept' = 0 /\ nPolls' = 0
    /\ data' = NoData /\ idx' = 0
    /\ text_content' = None /\ sql_content' = None
    /\ columns' = <<>> /\ rows' = <<>>
    /\ fetches' = <<>> /\ fetch_failed' = 0 /\ payloads' = <<>>
    /\ result' = NoResult /\ exc' = None /\ failed_in' = None
    /\ UNCHANGED <<client, self, other, waiting, scriptVars>>

\* on_message returns (bpc "sent": nothing is left to do but return): its
\* locals and the history of the turn are gone, _conv_map stays.
BotDone ==
    /\ bpc = "sent"
    /\ bpc' = "idle"
    /\ activity' = NoActivity
    /\ genie_conv_id' = None
    /\ replies' = <<>>
    /\ before' = [t \in Threads |-> None]
    /\ asked' = 0
    /\ CallOver
    /\ UNCHANGED <<conv_map, reset_last>>

\* What the remote answers to the bot's submits: with or without an id.
BotSubmitResponses == [conversation_id : {None, "c1", "c2"}, message_id : {"m1"}, id : {"m2"}]

\* The steps of the ask() call the handler waits for (they are enabled only
\* while it waits: CallOver leaves pc "idle").  The remote answers a terminal
\* status to the first status poll, or none within the budget.
BotStep ==
    \/ \E r \in BotSubmitResponses : StartConversationOk(r)
    \/ \E f \in Failures : StartConversationFail(f)
    \/ \E r \in BotSubmitResponses : FollowUpOk(r)
    \/ \E f \in Failures : FollowUpFail(f)
    \/ PollSleep
    \/ PollTimeout
    \/ \E f \in Failures : PollGetFail(f)
    \/ PollGetPending("EXECUTING_QUERY")
    \/ \E d \in PollResponses : elapsed = POLL_INTERVAL_INITIAL /\ PollGetTerminal(d)
    \/ ParseAttachment
    \/ \E qr \in QueryResults : ParseAttachmentFetched(qr)
    \/ \E f \in Failures : ParseAttachmentFetchFail(f)
    \/ ParseReturn

BotNext ==
    \/ \E a \in Activities : BotIgnore(a)
    \/ \E a \in Activities : BotReset(a)
    \/ \E a \in Activities : BotTyping(a)
    \/ BotAsk
    \/ BotStep
    \/ BotAskReturned
    \/ BotAskRaised
    \/ BotDone

\* Activities are delivered one at a time: each is handled to its end
\* before the next arrives.
BotSpec == Init /\ [][BotNext]_vars

----------------------------------------------------------------------------
(* C22 *)

\* The handler of the activity has done all it does.
Handled == bpc = "sent"

\* Messages whose text, trimmed and in lower case, is a reset command.
CommandTexts == {"/reset", " /Reset ", "/NEW", "New Conversation"}

IsCommand(a) == a.type = "message" /\ a.text \in CommandTexts

\* C22: a reset command, in any case and with blanks around it, only removes
\* the thread's entry of the session map and issues no request to Genie; the
\* next message with a text on that thread is submitted as a new
\* conversation.
C22_ResetEvicts ==
    /\ (Handled /\ IsCommand(activity)) =>
           /\ conv_map = [before EXCEPT ![activity.thread] = None]
           /\ replies = <<ResetReply>>
           /\ asked = 0 /\ pc = "idle" /\ submits = <<>> /\ nPolls = 0
           /\ activity.thread \in reset_last
    /\ (bpc = "asking" /\ activity.thread \in reset_last) =>
           /\ conversation_id = None
           /\ ~IsCommand(activity)
           /\ Submitted => submits = <<StartRequest(UserText(activity))>>

C22_Witness ==
    /\ Handled
    /\ activity = [type |-> "message", thread |-> "th1", text |-> " /Reset "]
    /\ before = [th1 |-> "c1", th2 |-> "c2"]
    /\ conv_map = [th1 |-> None, th2 |-> "c2"]

----------------------------------------------------------------------------
(* C23 *)

\* ask() has returned to the handler, which has stored and replied.
AskReturned == Handled /\ pc = "returned"

\* C23: after ask() returns, the thread's entry is the returned
\* conversation_id when it is set and not empty, and the map is as it was
\* otherwise; a message is sent with what the map holds for its thread.
C23_StoresReturnedId ==
    /\ [](AskReturned =>
             IF result.conversation_id \notin {None, ""}
             THEN conv_map = [before EXCEPT ![activity.thread] = result.conversation_id]
             ELSE conv_map = before)
    /\ [][(bpc = "typing" /\ bpc' = "asking") =>
              /\ conversation_id' = conv_map[activity.thread]
              /\ conv_map' = conv_map]_vars

C23_Witness ==
    /\ AskReturned
    /\ activity.thread = "th2"
    /\ before = [th1 |-> "c1", th2 |-> None]
    /\ result.conversation_id = "c2"
    /\ conv_map = [th1 |-> "c1", th2 |-> "c2"]

----------------------------------------------------------------------------
(* C24 *)

\* C24: after an ask() that ended in TIMEOUT the bot holds the timed-out
\* call's conversation_id for the thread, so that the next message of the
\* thread is a follow-up to that conversation.
C24_TimeoutKeepsSession ==
    (AskReturned /\ result.status = "TIMEOUT") =>
        /\ conv_map[activity.thread] = conv_id
        /\ AskBranch(conv_map[activity.thread]) = "follow_up"

----------------------------------------------------------------------------
(* C25 *)

\* ask() has raised to the handler, which has replied.
AskRaised == Handled /\ pc = "raised"

\* C25: when ask() raises, the session map is as it was when the message
\* arrived, and the user gets the error reply and nothing else after the
\* typing indicator.
C25_RaiseKeepsSession ==
    AskRaised =>
        /\ conv_map = before
        /\ replies = <<Typing, ErrorReply(exc)>>
        /\ exc \in Failures
        /\ asked = 1

C25_Witness ==
    /\ AskRaised
    /\ failed_in = "poll"
    /\ activity.thread = "th1"
    /\ before["th1"] = "c1"
    /\ conv_map["th1"] = "c1"
    /\ conversation_id = "c1"

----------------------------------------------------------------------------
(* _format_response on any result *)

\* Rows of a result beyond those of the table.
MaxRows == 22

\* n rows of one cell each.
Rows(n) == [i \in 1..n |-> <<i>>]

\* Results of every status, with a text and an sql that are missing, empty
\* or present, up to two columns (the second without a name), and none,
\* few, 20 or more rows.
FormatResults ==
    {GenieResult(st, t, q, c, Rows(n), er, "c1", "m1") :
        st \in TerminalStatuses \cup {"TIMEOUT"},
        t \in {None, "", "t1"}, q \in {None, "", "s1"},
        c \in {<<>>, <<Col1>>, <<Col1, [name |-> None]>>},
        n \in {0, 1} \cup (TABLE_ROWS - 1)..MaxRows,
        er \in {None, "", "e1"}}

\* ask("q1", None) has just returned a result to the handler of a message
\* of thread th1.
FormatInit ==
    /\ client = NewClient
    /\ pc = "returned"
    /\ question = "q1"
    /\ conversation_id = None
    /\ submits = <<StartRequest("q1")>>
    /\ conv_id = "c1"
    /\ msg_id = "m1"
    /\ interval = POLL_INTERVAL_INITIAL
    /\ elapsed = POLL_INTERVAL_INITIAL
    /\ slept = POLL_INTERVAL_INITIAL
    /\ nPolls = 1
    /\ data = NoData
    /\ idx = 0
    /\ text_content = None
    /\ sql_content = None
    /\ columns = <<>>
    /\ rows = <<>>
    /\ fetches = <<>>
    /\ fetch_failed = 0
    /\ payloads = <<>>
    /\ result \in FormatResults
    /\ exc = None
    /\ failed_in = None
    /\ conv_map = [t \in Threads |-> None]
    /\ bpc = "asking"
    /\ activity = [type |-> "message", thread |-> "th1", text |-> "q1"]
    /\ genie_conv_id = None
    /\ replies = <<Typing>>
    /\ before = [t \in Threads |-> None]
    /\ asked = 1
    /\ reset_last = {}
    /\ self = "A"
    /\ other = NoFrame
    /\ waiting = <<>>
    /\ ScriptInit

FormatNext == BotAskReturned \/ BotDone

FormatSpec == FormatInit /\ [][FormatNext]_vars

----------------------------------------------------------------------------
(* C26 *)

\* C26: the reply to a FAILED result is the remote error message, or
\* 'Unknown error' when there is none, and the reply to a TIMEOUT result is
\* the fixed message; neither has a text, an sql or a table, and ask() is
\* not called again for the message.
C26_SoftFailureReplies ==
    /\ (AskReturned /\ result.status = "FAILED") =>
           /\ replies = <<Typing, Reply("Genie could not answer",
                                        IF result.error \in {None, ""}
                                        THEN "Unknown error" ELSE result.error, <<>>)>>
           /\ asked = 1
    /\ (AskReturned /\ result.status = "TIMEOUT") =>
           /\ replies = <<Typing, TimeoutReply>>
           /\ asked = 1

C26_Witness ==
    /\ AskReturned
    /\ result.status = "FAILED"
    /\ result.text = "t1"
    /\ result.error = None
    /\ replies[2] = FailedReply("Unknown error")

----------------------------------------------------------------------------
(* C27 *)

HasTable(r) == r.columns # <<>> /\ r.rows # <<>>

HasContent(r) == r.text \notin {None, ""} \/ r.sql \notin {None, ""} \/ HasTable(r)

\* C27: a COMPLETED result with a text, an sql or a table is answered with
\* at least one part, and one with none of them with the fixed 'Genie
\* returned an empty response.' message: the reply is never empty.
C27_NeverEmptyReply ==
    (AskReturned /\ result.status = "COMPLETED") =>
        /\ Len(replies) = 2
        /\ HasContent(result) => (replies[2].kind = "answer" /\ replies[2].parts # <<>>)
        /\ ~HasContent(result) => replies[2] = EmptyReply

C27_Witness ==
    /\ AskReturned
    /\ result.status = "COMPLETED"
    /\ result.text = ""
    /\ result.sql = None
    /\ result.columns = <<Col1>> /\ result.rows = <<>>
    /\ replies[2] = EmptyReply

----------------------------------------------------------------------------
(* Two ask() calls on one GenieClient, each on an OS thread of its own *)

\* The threads that call ask() on the client.  The variables of the call
\* hold the frame of the thread that runs, other the frame of the thread
\* that is suspended in a sleep, in a request, or between two statements.
CallerThreads == {"A", "B"}

OtherThread(t) == IF t = "A" THEN "B" ELSE "A"

\* What each thread asks, and what the remote answers to the requests of
\* that thread's call: the ids, the text, the sql and the columns of its own
\* message.
QuestionOf(t) == IF t = "A" THEN "q1" ELSE "q2"
ConvOf(t) == IF t = "A" THEN "c1" ELSE "c2"
MsgOf(t) == IF t = "A" THEN "m1" ELSE "m2"
TextOf(t) == IF t = "A" THEN "t1" ELSE "t2"
SqlOf(t) == IF t = "A" THEN "s1" ELSE "s2"
AttOf(t) == IF t = "A" THEN "a1" ELSE "a2"
ColsOf(t) == IF t = "A" THEN <<Col1>> ELSE <<[name |-> "k2"]>>

ConcSubmitResponses(t) ==
    {[conversation_id |-> ConvOf(t), message_id |-> MsgOf(t), id |-> MsgOf(t)]}

ConcPollResponses(t) ==
    {Response("COMPLETED", None, <<Attachment(TextOf(t), SqlOf(t), AttOf(t))>>),
     Response("FAILED", "e1", <<Attachment(TextOf(t), None, None)>>)}

ConcQueryResults(t) == {[columns |-> ColsOf(t), rows |-> <<Row1>>]}

\* The frame of the running call: the arguments and locals of ask and of
\* its helpers, with the history of the call.
Frame ==
    [pc |-> pc,
     question |-> question,
     conversation_id |-> conversation_id,
     submits |-> submits,
     conv_id |-> conv_id,
     msg_id |-> msg_id,
     interval |-> interval,
     elapsed |-> elapsed,
     slept |-> slept,
     nPolls |-> nPolls,
     data |-> data,
     idx |-> idx,
     text_content |-> text_content,
     sql_content |-> sql_content,
     columns |-> columns,
     rows |-> rows,
     fetches |-> fetches,
     fetch_failed |-> fetch_failed,
     payloads |-> payloads,
     result |-> result,
     exc |-> exc,
     failed_in |-> failed_in]

\* The interpreter switches threads, interval and elapsed being attributes
\* of the client object that the two calls share.
SwitchSharingBudget ==
    /\ other' = Frame
    /\ self' = OtherThread(self)
    /\ pc' = other.pc
    /\ question' = other.question
    /\ conversation_id' = other.conversation_id
    /\ submits' = other.submits
    /\ conv_id' = other.conv_id
    /\ msg_id' = other.msg_id
    /\ slept' = other.slept
    /\ nPolls' = other.nPolls
    /\ data' = other.data
    /\ idx' = other.idx
    /\ text_content' = other.text_content
    /\ sql_content' = other.sql_content
    /\ columns' = other.columns
    /\ rows' = other.rows
    /\ fetches' = other.fetches
    /\ fetch_failed' = other.fetch_failed
    /\ payloads' = other.payloads
    /\ result' = other.result
    /\ exc' = other.exc
    /\ failed_in' = other.failed_in
    /\ UNCHANGED <<interval, elapsed>>
    /\ UNCHANGED <<client, conv_map, bpc, activity, genie_conv_id, replies, before, asked,
                   reset_last, waiting, scriptVars>>

\* The interpreter switches threads: the running call is suspended where it
\* is, the other call goes on with its own arguments and locals.  All that
\* the two calls share is the client object, which ask() does not assign.
Switch ==
    /\ other' = Frame
    /\ self' = OtherThread(self)
    /\ pc' = other.pc
    /\ question' = other.question
    /\ conversation_id' = other.conversation_id
    /\ submits' = other.submits
    /\ conv_id' = other.conv_id
    /\ msg_id' = other.msg_id
    /\ interval' = other.interval
    /\ elapsed' = other.elapsed
    /\ slept' = other.slept
    /\ nPolls' = other.nPolls
    /\ data' = other.data
    /\ idx' = other.idx
    /\ text_content' = other.text_content
    /\ sql_content' = other.sql_content
    /\ columns' = other.columns
    /\ rows' = other.rows
    /\ fetches' = other.fetches
    /\ fetch_failed' = other.fetch_failed
    /\ payloads' = other.payloads
    /\ result' = other.result
    /\ exc' = other.exc
    /\ failed_in' = other.failed_in
    /\ UNCHANGED <<client, conv_map, bpc, activity, genie_conv_id, replies, before, asked,
                   reset_last, waiting, scriptVars>>

\* The running thread calls ask(): a new conversation, or a follow-up of
\* the conversation c0.
ConcAsk(cid) ==
    /\ pc = "idle"
    /\ Ask(QuestionOf(self), cid)

\* A step of the running call.  The remote answers a terminal status to the
\* first status poll, or none within the budget.
ConcStep ==
    \/ \E r \in ConcSubmitResponses(self) : StartConversationOk(r)
    \/ StartConversationFail("HTTPError")
    \/ \E r \in ConcSubmitResponses(self) : FollowUpOk(r)
    \/ FollowUpFail("HTTPError")
    \/ PollSleep
    \/ PollTimeout
    \/ PollGetFail("HTTPError")
    \/ PollGetPending("EXECUTING_QUERY")
    \/ \E d \in ConcPollResponses(self) : elapsed = POLL_INTERVAL_INITIAL /\ PollGetTerminal(d)
    \/ ParseAttachment
    \/ \E qr \in ConcQueryResults(self) : ParseAttachmentFetched(qr)
    \/ ParseAttachmentFetchFail("HTTPError")
    \/ ParseReturn

ConcNext ==
    \/ \E cid \in {None, "c0"} : ConcAsk(cid)
    \/ ConcStep
    \/ Switch

ConcSpec == Init /\ [][ConcNext]_vars

----------------------------------------------------------------------------
(* C21 *)

RECURSIVE ElapsedAlone(_)
\* The sum of the first n delays of a call that runs alone.
ElapsedAlone(n) == IF n = 0 THEN 0 ELSE ElapsedAlone(n - 1) + ExactDelay(n)

\* The conversation of thread t's call with frame f: the one it follows up,
\* or the one its own start-conversation was answered.
OwnConv(f, t) == IF Truthy(f.conversation_id) THEN f.conversation_id ELSE ConvOf(t)

\* The call of thread t, with frame f, is where it would be had it run alone.
Alone(f, t) ==
    /\ f.pc # "idle" => f.question = QuestionOf(t)
    /\ f.pc \in {"poll_test", "poll_get", "parse", "returned"} =>
           /\ f.conv_id = OwnConv(f, t)
           /\ f.msg_id = MsgOf(t)
           /\ Len(f.submits) = 1
           /\ f.submits[1].content = QuestionOf(t)
    /\ f.pc = "poll_test" =>
           /\ f.interval = ExactDelay(f.nPolls + 1)
           /\ f.elapsed = ElapsedAlone(f.nPolls)
    /\ f.pc = "poll_get" =>
           /\ f.slept = ExactDelay(f.nPolls + 1)
           /\ f.interval = f.slept
           /\ f.elapsed = ElapsedAlone(f.nPolls + 1)
    /\ f.pc = "returned" =>
           /\ f.result.conversation_id = OwnConv(f, t)
           /\ f.result.message_id = MsgOf(t)
           /\ f.result.status = "TIMEOUT" =>
                  /\ f.nPolls = 34
                  /\ f.elapsed = TimeoutElapsed
                  /\ f.result.text = None /\ f.result.sql = None
                  /\ f.result.columns = <<>>
           /\ f.result.status # "TIMEOUT" =>
                  /\ f.nPolls = 1
                  /\ f.result.text = TextOf(t)
                  /\ f.result.sql \in {None, SqlOf(t)}
                  /\ f.result.columns \in {<<>>, ColsOf(t)}
                  /\ \A i \in 1..Len(f.fetches) : f.fetches[i] = AttOf(t)

\* C21: of two ask() calls that run concurrently on one client, their
\* requests and sleeps interleaved in any order, each has the backoff delay
\* and the elapsed budget it would have had alone, and each returned result
\* carries the conversation id, the message id and the attachments of its
\* own submit.
C21_NoInterference == Alone(Frame, self) /\ Alone(other, OtherThread(self))

C21_Witness ==
    /\ self = "A"
    /\ pc = "returned"
    /\ result.status = "COMPLETED"
    /\ result.conversation_id = "c1" /\ result.message_id = "m1"
    /\ result.text = "t1" /\ result.columns = <<Col1>>
    /\ other.pc = "poll_get"
    /\ other.nPolls = 6
    /\ other.conv_id = "c2" /\ other.msg_id = "m2"

----------------------------------------------------------------------------
(* C31 *)

\* C31: whatever the activity of a thread is (a question, a reset, an
\* activity that is ignored, a question whose ask() raises), no step of its
\* handling adds, changes or removes the entry of another thread, and when
\* the handler is done the entries of the other threads are as they were
\* when the activity arrived.
C31_OtherThreadsKept ==
    /\ [](Handled => \A t \in Threads \ {activity.thread} : conv_map[t] = before[t])
    /\ [][\A t \in Threads : conv_map'[t] # conv_map[t] => activity'.thread = t]_vars

C31_Witness ==
    /\ Handled
    /\ activity = [type |-> "message", thread |-> "th1", text |-> "/NEW"]
    /\ before = [th1 |-> "c1", th2 |-> "c2"]
    /\ conv_map = [th1 |-> None, th2 |-> "c2"]

----------------------------------------------------------------------------
(* The Teams bot: handlers that interleave at their awaits *)

\* Handlers suspended at once in the send of the typing indicator.
MaxWaiting == 2

\* A handler suspended in `await turn_context.send_activity(typing)`: its
\* activity, and the map as it was when the activity arrived.
Suspended(a, b) == [activity |-> a, before |-> b]

\* The handler awaits the send of the typing indicator: the event loop is
\* free to run another handler.
BotSuspend ==
    /\ bpc = "typing"
    /\ Len(waiting) < MaxWaiting
    /\ waiting' = Append(waiting, Suspended(activity, before))
    /\ bpc' = "idle"
    /\ activity' = NoActivity
    /\ genie_conv_id' = None
    /\ replies' = <<>>
    /\ before' = [t \in Threads |-> None]
    /\ asked' = 0
    /\ UNCHANGED <<conv_map, reset_last, self, other, scriptVars>>
    /\ UNCHANGED <<pc, question, conversation_id, submits, client, result, exc, failed_in>>
    /\ UNCHANGED pollVars
    /\ UNCHANGED parseVars

\* The waiting sequence without its i-th handler.
Without(w, i) == SubSeq(w, 1, i - 1) \o SubSeq(w, i + 1, Len(w))

\* The typing indicator of the i-th suspended handler is sent and no handler
\* is running: the event loop resumes it, in any order.
BotResume(i) ==
    /\ bpc = "idle"
    /\ i \in 1..Len(waiting)
    /\ activity' = waiting[i].activity
    /\ before' = waiting[i].before
    /\ waiting' = Without(waiting, i)
    /\ replies' = <<Typing>>
    /\ bpc' = "typing"
    /\ UNCHANGED <<genie_conv_id, asked, conv_map, reset_last, self, other, scriptVars>>
    /\ UNCHANGED <<pc, question, conversation_id, submits, client, result, exc, failed_in>>
    /\ UNCHANGED pollVars
    /\ UNCHANGED parseVars

\* The activities that arrive: a question, a reset command and a message
\* without text, on either thread.
LoopActivities == [type : {"message"}, thread : Threads, text : {"q1", "/reset", None}]

LoopSubmitResponses == [conversation_id : {None, "c1"}, message_id : {"m1"}, id : {"m2"}]

LoopPollResponses == {Response("COMPLETED", None, <<Attachment("t1", None, None)>>)}

\* The steps of the synchronous ask() call of the running handler; the
\* first status poll is answered a terminal status.
LoopStep ==
    \/ \E r \in LoopSubmitResponses : StartConversationOk(r)
    \/ StartConversationFail("HTTPError")
    \/ \E r \in LoopSubmitResponses : FollowUpOk(r)
    \/ FollowUpFail("HTTPError")
    \/ PollSleep
    \/ PollGetFail("HTTPError")
    \/ \E d \in LoopPollResponses : PollGetTerminal(d)
    \/ ParseAttachment
    \/ ParseReturn

LoopNext ==
    \/ \E a \in LoopActivities : BotIgnore(a)
    \/ \E a \in LoopActivities : BotReset(a)
    \/ \E a \in LoopActivities : BotTyping(a)
    \/ BotSuspend
    \/ \E i \in 1..MaxWaiting : BotResume(i)
    \/ BotAsk
    \/ LoopStep
    \/ BotAskReturned
    \/ BotAskRaised
    \/ BotDone

\* Handlers run on one event loop: one runs at a time, the others are
\* suspended in an await or have not begun.
LoopSpec == Init /\ [][LoopNext]_vars

----------------------------------------------------------------------------
(* C32 *)

\* The running handler reads the map and calls ask().
AskStarts == bpc = "typing" /\ bpc' = "asking"

\* C32: handlers interleave only while one awaits a send.  The stored id is
\* read in the step that calls ask(); while the call runs no handler is
\* suspended or resumed and the map does not change; the returned id, when
\* it is not empty, is written in the step in which ask() returns.  Hence a
\* message that arrived when its thread had no stored id, and whose handler
\* reads the map after the ask() of another message of the thread has
\* returned an id, is sent as a follow-up to that conversation and issues
\* no start-conversation request.
C32_AtomicReadAskWrite ==
    /\ [][AskStarts =>
              /\ genie_conv_id' = conv_map[activity.thread]
              /\ conversation_id' = conv_map[activity.thread]
              /\ conv_map' = conv_map /\ waiting' = waiting]_vars
    /\ [][bpc = "asking" =>
              /\ waiting' = waiting /\ activity' = activity
              /\ conv_map' # conv_map => (pc = "returned" /\ bpc' = "sent")
              /\ (pc = "returned" /\ Truthy(result.conversation_id)) =>
                     conv_map'[activity.thread] = result.conversation_id]_vars
    /\ []((bpc \in {"asking", "sent"} /\ asked = 1 /\ before[activity.thread] = None
              /\ Truthy(genie_conv_id)) =>
             /\ conversation_id = genie_conv_id
             /\ \A i \in 1..Len(submits) :
                    submits[i] = FollowUpRequest(genie_conv_id, UserText(activity)))

\* The second message of a pair: it arrived when the thread had no id, the
\* first one's ask() has stored c1 since, and it is sent as a follow-up.
C32_Witness ==
    /\ bpc = "asking"
    /\ pc = "poll_test"
    /\ activity = [type |-> "message", thread |-> "th1", text |-> "q1"]
    /\ before["th1"] = None
    /\ "th1" \notin reset_last
    /\ genie_conv_id = "c1"
    /\ submits = <<FollowUpRequest("c1", "q1")>>

----------------------------------------------------------------------------
(* C33 *)

\* C33: once a reset of a thread is handled, the thread has no entry until
\* an ask() started after the reset returns an id.  No reset is handled
\* while an ask() is under way, so every ask() that returns after a reset
\* was started after it; an entry is written only in the step in which the
\* ask() of a message of the thread returns, with the id it returned; and
\* from the reset to that step the thread has no entry.
C33_ResetNotUndone ==
    /\ [](\A t \in reset_last : conv_map[t] = None)
    /\ [][bpc = "asking" => reset_last' \subseteq reset_last]_vars
    /\ [][\A t \in Threads :
              (conv_map'[t] # conv_map[t] /\ conv_map'[t] # None) =>
                  /\ bpc = "asking" /\ pc = "returned"
                  /\ activity.thread = t
                  /\ conv_map'[t] = result.conversation_id]_vars

\* A reset of th1 is handled while a question of th1, which arrived when
\* th1 had the entry c1, is suspended.
C33_Witness ==
    /\ Handled
    /\ activity = [type |-> "message", thread |-> "th1", text |-> "/reset"]
    /\ Len(waiting) = 1
    /\ waiting[1].activity.thread = "th1"
    /\ waiting[1].before["th1"] = "c1"
    /\ "th1" \in reset_last
    /\ conv_map["th1"] = None

----------------------------------------------------------------------------
(* C34 *)

\* The table parts of a reply.
Tables(rep) == {i \in 1..Len(rep.parts) : rep.parts[i].part = "table"}

\* C34: the reply has a table only when the result has columns and rows; a
\* result that is neither FAILED nor TIMEOUT and has both gets one table,
\* with one line for each of the first min(20, number of rows) rows, in the
\* order of the rows, and with the 'Showing 20 of N rows' note exactly when
\* it has more than 20 rows.
C34_TableRendering ==
    AskReturned =>
        LET rep == replies[2]
            n == Len(result.rows)
        IN  /\ Tables(rep) # {} => (result.columns # <<>> /\ result.rows # <<>>)
            /\ (result.status \notin {"FAILED", "TIMEOUT"} /\ result.columns # <<>>
                    /\ result.rows # <<>>) =>
                   /\ Tables(rep) = {Len(rep.parts)}
                   /\ LET tab == rep.parts[Len(rep.parts)]
                      IN  /\ Len(tab.header) = Len(result.columns)
                          /\ Len(tab.lines) = (IF n < 20 THEN n ELSE 20)
                          /\ \A k \in 1..Len(tab.lines) :
                                 tab.lines[k] = <<ToString(result.rows[k][1])>>
                          /\ (tab.note # 0) <=> (n > 20)
                          /\ tab.note # 0 => tab.note = n

\* A result of 21 rows: 20 lines and the note.
C34_Witness ==
    /\ AskReturned
    /\ result.status = "COMPLETED"
    /\ Len(result.columns) = 2
    /\ Len(result.rows) = 21
    /\ Len(replies[2].parts[Len(replies[2].parts)].lines) = 20
    /\ replies[2].parts[Len(replies[2].parts)].lines[20] = <<"20">>
    /\ replies[2].parts[Len(replies[2].parts)].note = 21

----------------------------------------------------------------------------
(* C35 *)

\* C35: the reply to a CANCELLED result is an answer made of the text, the
\* sql and the table of the result, in that order and each only if present,
\* or the fixed 'Genie returned an empty response.' when none is; it has no
\* error detail and none of its parts is the error of the result.
C35_CancelledHidesError ==
    (AskReturned /\ result.status = "CANCELLED") =>
        LET rep == replies[2] IN
        /\ rep.detail = None
        /\ rep.kind # FailedReply(None).kind
        /\ \A i \in 1..Len(rep.parts) :
               /\ rep.parts[i].part \in {"text", "sql", "table"}
               /\ rep.parts[i].part = "text" => rep.parts[i].content = result.text
               /\ rep.parts[i].part = "sql" => rep.parts[i].content = result.sql
               /\ Truthy(result.error) => rep.parts[i].content # result.error
        /\ HasContent(result) => (rep.kind = "answer" /\ rep.parts # <<>>)
        /\ ~HasContent(result) => rep = EmptyReply

C35_Witness ==
    /\ AskReturned
    /\ result.status = "CANCELLED"
    /\ result.error = "e1"
    /\ result.text = None /\ result.sql = ""
    /\ result.rows = <<>>
    /\ replies[2] = EmptyReply

----------------------------------------------------------------------------
(* The Databricks app, src/03-databricks-app-genie/src/app.py *)

\* The state of the Teams bot and of its client, which the programs below
\* leave alone.
teamsVars == <<pc, question, conversation_id, submits, conv_id, msg_id, interval,
               elapsed, slept, nPolls, data, idx, text_content, sql_content,
               columns, rows, fetches, fetch_failed, payloads, result, exc,
               failed_in, client, conv_map, bpc, activity, genie_conv_id, replies,
               before, asked, reset_last, self, other, waiting>>

\* The chatbot holds at most MaxTurns question/answer pairs.
MaxTurns == 2

\* An optional object of the SDK (att.text, att.query): absent, or present
\* with its one field.
Absent == [is_none |-> TRUE, value |-> None]
Present(v) == [is_none |-> FALSE, value |-> v]

\* GenieAttachment as ask_genie reads it: att.text (.content), att.query
\* (.query) and att.attachment_id.
AppAtt(t, q, a) == [text |-> t, query |-> q, attachment_id |-> a]

\* The attachments Genie answers with: a text with an id, a query with an
\* id, and an attachment whose text and query are there but hold nothing.
AppAttachments ==
    { AppAtt(Present("t1"), Absent, "a0"),
      AppAtt(Absent, Present("s1"), "a1"),
      AppAtt(Present(None), Present(None), None) }

\* A statement response is its manifest.schema.columns (<<>> when a link of
\* the chain is missing or the list is empty) and its result.data_array
\* (has_data is FALSE when result or data_array is missing). NoStatement:
\* the response holds no statement_response.
NoStatement == [present |-> FALSE, columns |-> <<>>, has_data |-> FALSE, data_array |-> <<>>]

\* What get_message_attachment_query_result does: it raises, or returns a
\* response that is the statement itself (older SDK) or holds it under
\* statement_response (SDK >= 0.40.0).
FetchRaises ==
    [raises |-> TRUE, statement_response |-> NoStatement,
     columns |-> <<>>, has_data |-> FALSE, data_array |-> <<>>]
FlatResponse(cols, has, arr) ==
    [raises |-> FALSE, statement_response |-> NoStatement,
     columns |-> cols, has_data |-> has, data_array |-> arr]
NestedResponse(cols, has, arr) ==
    [raises |-> FALSE,
     statement_response |-> [present |-> TRUE, columns |-> cols,
                             has_data |-> has, data_array |-> arr],
     columns |-> <<>>, has_data |-> FALSE, data_array |-> <<>>]

AppFetchOutcomes ==
    { FetchRaises,
      FlatResponse(<<"period", "value">>, FALSE, <<>>),
      NestedResponse(<<"period", "value">>, TRUE, << <<"2024-01", "10">> >>),
      FlatResponse(<<"region", "value">>, TRUE,
                   << <<"World", "7">>, <<"G7", "10">> >>) }

\* GenieMessage as ask_genie reads it; status is None or the value of the
\* status enum.
AppMsg(c, s, atts) ==
    [conversation_id |-> c, id |-> "m1", status |-> s, attachments |-> atts]
NoMsg == AppMsg(None, None, <<>>)

\* The attachments of a message for which line 203 issues the fetch.
AppFetched(msg) ==
    {i \in 1..Len(msg.attachments) :
        /\ ~msg.attachments[i].query.is_none
        /\ Truthy(msg.attachments[i].attachment_id)
        /\ msg.status = "COMPLETED"}

\* The messages Genie answers with: without attachments, with one, or with
\* two.
AppMessages ==
    {AppMsg(c, s, atts) :
        c \in {None, "c1", "c2"},
        s \in {None, "COMPLETED", "FAILED"},
        atts \in {<<>>} \cup {<<a>> : a \in AppAttachments}
                       \cup {<<a, b>> : a \in AppAttachments, b \in AppAttachments}}

\* What Genie does with one question: the start/continue call raises e, or
\* returns msg, and then the fetches ask_genie issues end as `fetches` says,
\* in order.
AppEnvs ==
    {[raised |-> e, msg |-> NoMsg, fetches |-> <<>>] : e \in {"e1", ""}}
    \cup UNION {{[raised |-> None, msg |-> m, fetches |-> fs] :
                    fs \in [1..Cardinality(AppFetched(m)) -> AppFetchOutcomes]} :
                m \in AppMessages}

\* x or "" (lines 198, 200).
OrEmpty(x) == IF Truthy(x) THEN x ELSE ""

\* The values pd.to_numeric converts.
NumericStrings == {"7", "10"}

\* pd.DataFrame(data_array, columns=col_names), then pd.to_numeric on each
\* column: a column all of whose values convert becomes numeric, the others
\* stay as they are (lines 219-226).
DataFrame(arr, cols) ==
    [columns |-> cols, rows |-> arr,
     numeric |-> {cols[j] : j \in {k \in 1..Len(cols) :
                     \A i \in 1..Len(arr) : arr[i][k] \in NumericStrings}}]

\* df.empty
FrameEmpty(df) == Len(df.columns) = 0 \/ Len(df.rows) = 0

\* A call of the SDK.
Call(op, c, content, m, a) ==
    [op |-> op, conversation_id |-> c, content |-> content, message_id |-> m,
     attachment_id |-> a]

\* The dict ask_genie builds from the message (lines 187-193).
ResultDict(msg) ==
    [text |-> "", sql |-> "", dataframe |-> EmptyFrame,
     conversation_id |-> msg.conversation_id, error |-> None]

\* The dict ask_genie returns from its except clause (lines 235-241); e is
\* str(e).
ErrorDict(cid, e) ==
    [text |-> "", sql |-> "", dataframe |-> EmptyFrame,
     conversation_id |-> cid, error |-> e]

\* str(e) of the AttributeError that msg.status.value raises when status is
\* None.
NoStatusValue == "'NoneType' object has no attribute 'value'"

\* sr = getattr(qr, 'statement_response', None) or qr (line 213)
StatementOf(qr) == IF qr.statement_response.present THEN qr.statement_response ELSE qr

\* The body of the loop over the attachments (lines 196-229), on the state
\* st of the call: the dict so far, the SDK calls issued, the outcomes of
\* the fetches to come and the exception that left the loop, if any.
AppAttachmentUnguarded(msg, att, st) ==
    LET r1 == IF ~att.text.is_none
              THEN [st.result EXCEPT !.text = OrEmpty(att.text.value)]
              ELSE st.result
        r2 == IF ~att.query.is_none
              THEN [r1 EXCEPT !.sql = OrEmpty(att.query.value)]
              ELSE r1
        qr == Head(st.fs)
        sr == StatementOf(qr)
        get == Call("get_message_attachment_query_result", msg.conversation_id,
                    None, msg.id, att.attachment_id)
    IN  IF att.query.is_none \/ ~Truthy(att.attachment_id)
        THEN [st EXCEPT !.result = r2]
        ELSE IF msg.status = None
        THEN [st EXCEPT !.result = r2, !.exc = NoStatusValue]
        ELSE IF msg.status # "COMPLETED"
        THEN [st EXCEPT !.result = r2]
        ELSE IF qr.raises
        THEN [st EXCEPT !.result = r2, !.calls = Append(@, get), !.fs = Tail(@),
                        !.exc = "fetch failed"]
        ELSE IF Len(sr.columns) > 0 /\ sr.has_data
        THEN [st EXCEPT !.result = [r2 EXCEPT !.dataframe =
                                        DataFrame(sr.data_array, sr.columns)],
                        !.calls = Append(@, get), !.fs = Tail(@)]
        ELSE [st EXCEPT !.result = r2, !.calls = Append(@, get), !.fs = Tail(@)]
AppAttachment(msg, att, st) ==
    LET r1 == IF ~att.text.is_none
              THEN [st.result EXCEPT !.text = OrEmpty(att.text.value)]
              ELSE st.result
        r2 == IF ~att.query.is_none
              THEN [r1 EXCEPT !.sql = OrEmpty(att.query.value)]
              ELSE r1
        qr == Head(st.fs)
        sr == StatementOf(qr)
        get == Call("get_message_attachment_query_result", msg.conversation_id,
                    None, msg.id, att.attachment_id)
    IN  IF att.query.is_none \/ ~Truthy(att.attachment_id)
        THEN [st EXCEPT !.result = r2]
        ELSE IF msg.status = None
        THEN [st EXCEPT !.result = r2, !.exc = NoStatusValue]
        ELSE IF msg.status # "COMPLETED"
        THEN [st EXCEPT !.result = r2]
        ELSE IF qr.raises
        THEN [st EXCEPT !.result = r2, !.calls = Append(@, get), !.fs = Tail(@)]
        ELSE IF Len(sr.columns) > 0 /\ sr.has_data
        THEN [st EXCEPT !.result = [r2 EXCEPT !.dataframe =
                                        DataFrame(sr.data_array, sr.columns)],
                        !.calls = Append(@, get), !.fs = Tail(@)]
        ELSE [st EXCEPT !.result = r2, !.calls = Append(@, get), !.fs = Tail(@)]

\* for att in msg.attachments (line 196), left by the first exception.
RECURSIVE AppAttachmentsLoop(_, _, _)
AppAttachmentsLoop(msg, i, st) ==
    IF i > Len(msg.attachments) \/ st.exc # None
    THEN st
    ELSE AppAttachmentsLoop(msg, i + 1, AppAttachment(msg, msg.attachments[i], st))

\* ask_genie(question, conversation_id) when Genie behaves as env says: the
\* dict it returns and the SDK calls it issued.
AskGenie(q, cid, env) ==
    LET call == IF Truthy(cid)
                THEN Call("create_message_and_wait", cid, q, None, None)
                ELSE Call("start_conversation_and_wait", None, q, None, None)
        st == AppAttachmentsLoop(env.msg, 1,
                  [result |-> ResultDict(env.msg), calls |-> <<call>>,
                   fs |-> env.fetches, exc |-> None])
    IN  IF env.raised # None
        THEN [result |-> ErrorDict(cid, env.raised), calls |-> <<call>>]
        ELSE IF st.exc # None
        THEN [result |-> ErrorDict(cid, st.exc), calls |-> st.calls]
        ELSE [result |-> st.result, calls |-> st.calls]

\* The column names in which auto_chart finds one of its keywords
\* (lines 257-258).
TimeLike(c) == c \in {"period"}

\* auto_chart(df): the kind of the figure, or None.
AutoChart(df) ==
    LET numeric_cols == SelectSeq(df.columns, LAMBDA c : c \in df.numeric)
        non_numeric_cols == SelectSeq(df.columns, LAMBDA c : c \notin df.numeric)
        time_cols == SelectSeq(non_numeric_cols, TimeLike)
    IN  IF FrameEmpty(df) \/ Len(df.columns) < 2 THEN None
        ELSE IF Len(numeric_cols) = 0 THEN None
        ELSE IF Len(time_cols) > 0 THEN "line"
        ELSE IF Len(non_numeric_cols) > 0 /\ Len(df.rows) <= 20 THEN "bar"
        ELSE None

AppQuestions == {"q1", "  "}

\* A part of a chat message: the question, the error, Genie's text, the
\* count of rows, or the notice of an empty response.
ChatPart(kind, text, n) == [kind |-> kind, text |-> text, n |-> n]

\* bot_msg (lines 328-337), as its parts.
BotMsg(res) ==
    IF Truthy(res.error)
    THEN <<ChatPart("error", res.error, 0)>>
    ELSE LET parts == (IF Truthy(res.text) THEN <<ChatPart("text", res.text, 0)>> ELSE <<>>)
                      \o (IF ~FrameEmpty(res.dataframe)
                          THEN <<ChatPart("rows", "", Len(res.dataframe.rows))>>
                          ELSE <<>>)
         IN  IF Len(parts) > 0 THEN parts ELSE <<ChatPart("empty", "", 0)>>

\* What the app did last: the event, the question, the conversation state
\* it found, what Genie did, the dict ask_genie returned and the SDK calls.
Turn(ev, q, cid, env, res, calls) ==
    [event |-> ev, question |-> q, conv_id |-> cid, env |-> env, result |-> res,
     calls |-> calls]
NoEnv == [raised |-> None, msg |-> NoMsg, fetches |-> <<>>]

\* handle_question(question, history, conv_id), wired to
\* [chatbot, sql_output, data_table, chart_output, conv_state] (lines 438-451).
HandleQuestion(q, env) ==
    /\ IF Strip(q) = ""
       THEN /\ chatbot' = chatbot
            /\ sql_output' = ""
            /\ data_table' = EmptyFrame
            /\ chart_output' = None
            /\ conv_state' = conv_state
            /\ turn' = Turn("blank", q, conv_state, NoEnv, ResultDict(NoMsg), <<>>)
       ELSE /\ Len(chatbot) < 2 * MaxTurns
            /\ \E a \in {AskGenie(q, conv_state, env)} :
                /\ chatbot' = chatbot
                       \o <<[role |-> "user", content |-> <<ChatPart("question", q, 0)>>],
                            [role |-> "assistant", content |-> BotMsg(a.result)]>>
                /\ sql_output' = a.result.sql
                /\ data_table' = a.result.dataframe
                /\ chart_output' = AutoChart(a.result.dataframe)
                /\ conv_state' = IF Truthy(a.result.conversation_id)
                                 THEN a.result.conversation_id
                                 ELSE conv_state
                /\ turn' = Turn("question", q, conv_state, env, a.result, a.calls)
    /\ UNCHANGED <<results, bq, answers, sections, rq, outcomes, node, messages>>
    /\ UNCHANGED teamsVars

\* reset_conversation(), wired to the same outputs (lines 454-457).
ResetConversation ==
    /\ chatbot' = <<>>
    /\ sql_output' = ""
    /\ data_table' = EmptyFrame
    /\ chart_output' = None
    /\ conv_state' = None
    /\ turn' = Turn("reset", "", conv_state, NoEnv, ResultDict(NoMsg), <<>>)
    /\ UNCHANGED <<results, bq, answers, sections, rq, outcomes, node, messages>>
    /\ UNCHANGED teamsVars

\* Genie is not consulted on a blank question (lines 320-321).
EnvsFor(q) == IF Strip(q) = "" THEN {NoEnv} ELSE AppEnvs

AppNext ==
    \/ \E q \in AppQuestions : \E env \in EnvsFor(q) : HandleQuestion(q, env)
    \/ ResetConversation

AppSpec == Init /\ [][AppNext]_vars

\* The fetches of the last question that gave a table: they did not raise
\* and the statement had columns and a data array.
GoodFetches(env) ==
    {i \in 1..Len(env.fetches) :
        /\ ~env.fetches[i].raises
        /\ Len(StatementOf(env.fetches[i]).columns) > 0
        /\ StatementOf(env.fetches[i]).has_data}

\* The message has no status and an attachment with a query and an id, so
\* that reading msg.status.value raises inside ask_genie.
StatusMissed(env) ==
    /\ env.raised = None
    /\ env.msg.status = None
    /\ \E i \in 1..Len(env.msg.attachments) :
          /\ ~env.msg.attachments[i].query.is_none
          /\ Truthy(env.msg.attachments[i].attachment_id)

----------------------------------------------------------------------------
(* The benchmark job, src/05-genie-benchmark-job/src/run_benchmarks.py *)

\* BENCHMARK_QUESTIONS of benchmark_questions.py: id, question and category
\* of its ten questions.
BenchQ(id, q, cat) == [id |-> id, question |-> q, category |-> cat]

BENCHMARK_QUESTIONS ==
    << BenchQ("BQ-001", "recent CPI Bermuda", "single_value"),
       BenchQ("BQ-002", "highest CPI 2020", "ranking"),
       BenchQ("BQ-003", "average CPI", "aggregation"),
       BenchQ("BQ-004", "CPI trend", "time_series"),
       BenchQ("BQ-005", "compare CPI", "comparison"),
       BenchQ("BQ-006", "count countries", "aggregation"),
       BenchQ("BQ-007", "top 5", "ranking"),
       BenchQ("BQ-008", "year range", "metadata"),
       BenchQ("BQ-009", "percentage change", "calculation"),
       BenchQ("BQ-010", "above average", "complex") >>

\* genie_text[:1000]
TextLimit == 1000

\* The length of Genie's texts: "long" stands for a text of 1200 characters.
TextLength(t) == IF t = "long" THEN 1200 ELSE 2

\* t[:TextLimit]
Truncate(t) == IF TextLength(t) > TextLimit THEN "long[:1000]" ELSE t

\* What Genie does with a benchmark question: the call raises, or returns
\* a message.
BenchEnvs ==
    { [raised |-> "e1", msg |-> NoMsg],
      [raised |-> None,
       msg |-> AppMsg("c1", "COMPLETED",
                      << AppAtt(Present("long"), Absent, None),
                         AppAtt(Absent, Present("s1"), "a1") >>)],
      [raised |-> None,
       msg |-> AppMsg("c1", None, << AppAtt(Present("t1"), Present(None), None) >>)] }

\* The locals of one pass of the loop (lines 56-60).
BenchLocals ==
    [status |-> "UNKNOWN", genie_sql |-> "", genie_text |-> "", error_msg |-> "",
     has_results |-> FALSE]

\* for att in msg.attachments (lines 72-78), from attachment i on.
RECURSIVE BenchAttachments(_, _, _)
BenchAttachments(atts, i, loc) ==
    IF i > Len(atts) THEN loc
    ELSE LET att == atts[i]
             l1 == IF ~att.text.is_none
                   THEN [loc EXCEPT !.genie_text = OrEmpty(att.text.value)] ELSE loc
             l2 == IF ~att.query.is_none
                   THEN [l1 EXCEPT !.genie_sql = OrEmpty(att.query.value)] ELSE l1
             l3 == IF Truthy(att.attachment_id)
                   THEN [l2 EXCEPT !.has_results = TRUE] ELSE l2
         IN  BenchAttachments(atts, i + 1, l3)

\* The locals after the try statement (lines 62-88).
BenchTryCountsAttachments(env) ==
    IF env.raised # None
    THEN [BenchLocals EXCEPT !.status = "ERROR", !.error_msg = env.raised]
    ELSE [BenchAttachments(env.msg.attachments, 1,
            [BenchLocals EXCEPT !.status = IF env.msg.status # None
                                           THEN env.msg.status ELSE "UNKNOWN"])
          EXCEPT !.has_results = Len(env.msg.attachments) > 0]
BenchTry(env) ==
    IF env.raised # None
    THEN [BenchLocals EXCEPT !.status = "ERROR", !.error_msg = env.raised]
    ELSE BenchAttachments(env.msg.attachments, 1,
            [BenchLocals EXCEPT !.status = IF env.msg.status # None
                                           THEN env.msg.status ELSE "UNKNOWN"])

\* The record appended for question q (lines 90-101), without the two
\* times it holds.
BenchRecord(q, loc) ==
    [question_id |-> q.id, question |-> q.question, category |-> q.category,
     status |-> loc.status, genie_sql |-> loc.genie_sql,
     genie_text |-> Truncate(loc.genie_text),
     has_query_results |-> loc.has_results, error |-> loc.error_msg]

\* One pass of the loop over BENCHMARK_QUESTIONS (lines 51-101).
BenchmarkQuestion(env) ==
    /\ bq < Len(BENCHMARK_QUESTIONS)
    /\ results' = Append(results, BenchRecord(BENCHMARK_QUESTIONS[bq + 1], BenchTry(env)))
    /\ bq' = bq + 1
    /\ answers' = Append(answers, env)
    /\ UNCHANGED <<chatbot, sql_output, data_table, chart_output, conv_state, turn,
                   sections, rq, outcomes, node, messages>>
    /\ UNCHANGED teamsVars

BenchNext == \E env \in BenchEnvs : BenchmarkQuestion(env)

BenchSpec == Init /\ [][BenchNext]_vars

\* C37: The results hold one record for each question handled, in the order
\* of BENCHMARK_QUESTIONS, and every step appends exactly one record to
\* them; so when the loop is over there are as many records as questions.
\* The record of a raising call has status ERROR and str(e) as error, and
\* while questions are left the loop goes on. has_query_results is true
\* exactly when an attachment of the answer has an attachment id.
C37_OneRecordPerQuestion ==
    /\ [](/\ Len(results) = bq
          /\ Len(answers) = bq
          /\ bq = Len(BENCHMARK_QUESTIONS) => Len(results) = Len(BENCHMARK_QUESTIONS)
          /\ bq < Len(BENCHMARK_QUESTIONS) => ENABLED BenchNext
          /\ \A i \in 1..Len(results) :
                /\ results[i].question_id = BENCHMARK_QUESTIONS[i].id
                /\ results[i].question = BENCHMARK_QUESTIONS[i].question
                /\ answers[i].raised # None =>
                      /\ results[i].status = "ERROR"
                      /\ results[i].error = answers[i].raised
                /\ answers[i].raised = None =>
                      /\ results[i].status # "ERROR"
                      /\ results[i].error = ""
                /\ results[i].has_query_results <=>
                      /\ answers[i].raised = None
                      /\ \E j \in 1..Len(answers[i].msg.attachments) :
                            Truthy(answers[i].msg.attachments[j].attachment_id))
    /\ [][results' # results =>
            /\ Len(results') = Len(results) + 1
            /\ SubSeq(results', 1, Len(results)) = results]_vars

\* The run is over: its first call raised, its second answer had a query
\* with an id, its third had attachments without an id, and there are ten
\* records.
C37_Witness ==
    /\ bq = Len(BENCHMARK_QUESTIONS)
    /\ Len(results) = 10
    /\ answers[1].raised = "e1"
    /\ results[1].status = "ERROR"
    /\ results[1].error = "e1"
    /\ ~results[1].has_query_results
    /\ results[2].has_query_results
    /\ results[2].status = "COMPLETED"
    /\ Len(answers[3].msg.attachments) = 1
    /\ ~results[3].has_query_results
    /\ results[3].status = "UNKNOWN"

----------------------------------------------------------------------------
(* The report job, src/06-scheduled-genie-reports/src/generate_report.py *)

\* REPORT_QUESTIONS: section and question of its five entries.
ReportQ(s, q) == [section |-> s, question |-> q]

REPORT_QUESTIONS ==
    << ReportQ("Bermuda CPI Snapshot", "recent CPI Bermuda"),
       ReportQ("Global Rankings", "top 10 countries"),
       ReportQ("Peer Comparison", "compare CPI"),
       ReportQ("Trends", "average CPI"),
       ReportQ("Data Coverage", "how many countries") >>

\* qr.data_array[:50]
REPORT_ROWS == 50

\* A table of n rows; row i stands for itself.
RowsUpTo(n) == [i \in 1..n |-> i]

\* What get_message_attachment_query_result does for the report: it raises,
\* or returns qr with its columns and data_array.
ReportFetch(r, cols, arr) == [raises |-> r, columns |-> cols, data_array |-> arr]

ReportFetchOutcomes ==
    { ReportFetch(TRUE, <<>>, <<>>),
      ReportFetch(FALSE, <<"country", "value">>, RowsUpTo(REPORT_ROWS + 1)),
      ReportFetch(FALSE, <<"year">>, RowsUpTo(2)) }

\* The message Genie answers with: a text without an attachment id and two
\* queries with one, in a message that FAILED.
ReportMessages ==
    { AppMsg("c1", "FAILED", << AppAtt(Present("t1"), Absent, None),
                                AppAtt(Absent, Present("s1"), "a1"),
                                AppAtt(Absent, Present("s2"), "a2") >>) }

\* The attachments for which line 105 issues the fetch.
ReportFetched(msg) ==
    {i \in 1..Len(msg.attachments) : Truthy(msg.attachments[i].attachment_id)}

\* What Genie does with a report question.
ReportEnvs ==
    {[raised |-> "e1", msg |-> NoMsg, fetches |-> <<>>]}
    \cup UNION {{[raised |-> None, msg |-> m, fetches |-> fs] :
                    fs \in [1..Cardinality(ReportFetched(m)) -> ReportFetchOutcomes]} :
                m \in ReportMessages}

\* table_html: the header cells and the rows of the body; the empty string
\* is the table without header and body.
Html(header, body) == [header |-> header, body |-> body]
EmptyHtml == Html(<<>>, <<>>)

\* The status of a section: "OK", or "Error: " followed by str(e).
SectionStatus(kind, detail) == [kind |-> kind, detail |-> detail]

\* rows = qr.data_array[:50] (line 116)
ReportRowsAll(arr) == arr
ReportRows(arr) == SubSeq(arr, 1, Min(Len(arr), REPORT_ROWS))

\* The locals of the try statement (lines 94-96) and the fetches to come.
ReportLocals(fs) ==
    [text_response |-> "", sql_response |-> "", table_html |-> EmptyHtml, fs |-> fs]

\* The body of the loop over the attachments (lines 99-124).
ReportAttachment(att, loc) ==
    LET l1 == IF ~att.text.is_none
              THEN [loc EXCEPT !.text_response = OrEmpty(att.text.value)] ELSE loc
        l2 == IF ~att.query.is_none
              THEN [l1 EXCEPT !.sql_response = OrEmpty(att.query.value)] ELSE l1
        qr == Head(loc.fs)
    IN  IF ~Truthy(att.attachment_id) THEN l2
        ELSE IF qr.raises THEN [l2 EXCEPT !.fs = Tail(@)]
        ELSE IF Len(qr.columns) > 0 /\ Len(qr.data_array) > 0
        THEN [l2 EXCEPT !.fs = Tail(@),
                        !.table_html = Html(qr.columns, ReportRows(qr.data_array))]
        ELSE [l2 EXCEPT !.fs = Tail(@)]

RECURSIVE ReportAttachments(_, _, _)
ReportAttachments(atts, i, loc) ==
    IF i > Len(atts) THEN loc
    ELSE ReportAttachments(atts, i + 1, ReportAttachment(atts[i], loc))

\* The section appended for question q (lines 88-144).
ReportSection(q, env) ==
    IF env.raised # None
    THEN [title |-> q.section, question |-> q.question, text |-> "", sql |-> "",
          table_html |-> EmptyHtml, status |-> SectionStatus("Error: ", env.raised)]
    ELSE LET loc == ReportAttachments(env.msg.attachments, 1, ReportLocals(env.fetches))
         IN  [title |-> q.section, question |-> q.question,
              text |-> loc.text_response, sql |-> loc.sql_response,
              table_html |-> loc.table_html, status |-> SectionStatus("OK", "")]

\* One pass of the loop over REPORT_QUESTIONS (lines 84-145).
ReportQuestion(env) ==
    /\ rq < Len(REPORT_QUESTIONS)
    /\ sections' = Append(sections, ReportSection(REPORT_QUESTIONS[rq + 1], env))
    /\ rq' = rq + 1
    /\ outcomes' = Append(outcomes, env)
    /\ UNCHANGED <<chatbot, sql_output, data_table, chart_output, conv_state, turn,
                   results, bq, answers, node, messages>>
    /\ UNCHANGED teamsVars

ReportNext == \E env \in ReportEnvs : ReportQuestion(env)

ReportSpec == Init /\ [][ReportNext]_vars

\* The text and the SQL a message gives: those of its last attachment that
\* has a text, a query.
ReportText(atts) ==
    LET I == {i \in 1..Len(atts) : ~atts[i].text.is_none}
    IN  IF I = {} THEN "" ELSE OrEmpty(atts[Last(I)].text.value)
ReportSql(atts) ==
    LET I == {i \in 1..Len(atts) : ~atts[i].query.is_none}
    IN  IF I = {} THEN "" ELSE OrEmpty(atts[Last(I)].query.value)

\* The fetches of an answer that gave a table.
ReportGood(env) ==
    {i \in 1..Len(env.fetches) :
        /\ ~env.fetches[i].raises
        /\ Len(env.fetches[i].columns) > 0
        /\ Len(env.fetches[i].data_array) > 0}

----------------------------------------------------------------------------
(* The LangGraph agent, src/04-langgraph-genie-agent/src/agent.py *)

\* The model answers at most MaxAgentSteps times in one run of the graph.
MaxAgentSteps == 3

\* END of langgraph, and the point before the entry point.
END == "__end__"
START == "__start__"

\* A message of state["messages"]: has_key says whether the dict has the
\* key "tool_calls", tool_calls is its value (<<>> for None or []).
ChatMessage(role, content, has_key, calls) ==
    [role |-> role, content |-> content, has_key |-> has_key, tool_calls |-> calls]

\* last_message.get("tool_calls") (line 79)
GetToolCalls(m) == IF m.has_key THEN m.tool_calls ELSE <<>>

\* routing_logic(state), on state["messages"] (lines 77-81)
RoutingLogicOnKey(msgs) ==
    IF msgs[Len(msgs)].has_key THEN "continue" ELSE "end"
RoutingLogic(msgs) ==
    IF Len(GetToolCalls(msgs[Len(msgs)])) > 0 THEN "continue" ELSE "end"

\* add_conditional_edges("agent", routing_logic, {"continue": "tools",
\* "end": END}) (line 101)
AgentEdge(msgs) == IF RoutingLogic(msgs) = "continue" THEN "tools" ELSE END

\* What the model answers: a text, with no tool_calls key, with an empty
\* list of tool calls, or with one or two tool calls.
ModelResponses ==
    {ChatMessage("assistant", c, TRUE, calls) :
        c \in {"", "a1"}, calls \in {<<>>, <<"call1">>, <<"call1", "call2">>}}
    \cup {ChatMessage("assistant", "a1", FALSE, <<>>)}

\* The graph is invoked with the user's message and enters at "agent"
\* (line 100).
Invoke(q) ==
    /\ node = START
    /\ messages' = <<ChatMessage("user", q, FALSE, <<>>)>>
    /\ node' = "agent"
    /\ UNCHANGED <<chatbot, sql_output, data_table, chart_output, conv_state, turn,
                   results, bq, answers, sections, rq, outcomes>>
    /\ UNCHANGED teamsVars

\* The number of answers of the model in the messages.
Answers(msgs) == Cardinality({i \in 1..Len(msgs) : msgs[i].role = "assistant"})

\* The node "agent": call_model appends the response (lines 93-95), then
\* the conditional edge chooses the next node.
CallModel(response) ==
    /\ node = "agent"
    /\ Answers(messages) < MaxAgentSteps
    /\ messages' = Append(messages, response)
    /\ node' = AgentEdge(messages')
    /\ UNCHANGED <<chatbot, sql_output, data_table, chart_output, conv_state, turn,
                   results, bq, answers, sections, rq, outcomes>>
    /\ UNCHANGED teamsVars

\* The node "tools": ChatAgentToolNode appends one tool message for each
\* tool call of the last message, then the edge leads to "agent"
\* (lines 99, 102).
ToolNode ==
    /\ node = "tools"
    /\ messages' = messages \o
          [i \in 1..Len(GetToolCalls(messages[Len(messages)])) |->
              ChatMessage("tool", GetToolCalls(messages[Len(messages)])[i], FALSE, <<>>)]
    /\ node' = "agent"
    /\ UNCHANGED <<chatbot, sql_output, data_table, chart_output, conv_state, turn,
                   results, bq, answers, sections, rq, outcomes>>
    /\ UNCHANGED teamsVars

AgentNext ==
    \/ \E q \in {"q1", "q2"} : Invoke(q)
    \/ \E response \in ModelResponses : CallModel(response)
    \/ ToolNode

AgentSpec == Init /\ [][AgentNext]_vars

\* The last message has tool calls: the key is there and its list is not
\* empty.
HasToolCalls(msgs) ==
    /\ Len(msgs) > 0
    /\ msgs[Len(msgs)].has_key
    /\ msgs[Len(msgs)].tool_calls # <<>>

\* C39: The graph goes from its start to the agent node. A step of the
\* agent node leads to the tools node exactly when the last message then
\* has tool calls, and to END otherwise; a step of the tools node leads to
\* the agent node. So END is entered only by a step of the agent node after
\* which the last message is the model's and has no tool calls, never from
\* the tools node, and the graph stays at END.
C39_Routing ==
    /\ [](/\ node \in {START, "agent", "tools", END}
          /\ node = "tools" => HasToolCalls(messages)
          /\ node = END =>
                /\ ~HasToolCalls(messages)
                /\ messages[Len(messages)].role = "assistant")
    /\ [][/\ node = START => node' = "agent"
          /\ node = "agent" =>
                /\ node' \in {"tools", END}
                /\ node' = "tools" <=> HasToolCalls(messages')
                /\ node' = END <=> ~HasToolCalls(messages')
                /\ messages'[Len(messages')].role = "assistant"
          /\ node = "tools" => node' = "agent"
          /\ node' = END => node = "agent"
          /\ node # END]_vars

\* The graph has ended after the model called two tools, then one, then
\* answered with an empty list of tool calls.
C39_Witness ==
    /\ node = END
    /\ Len(messages) = 7
    /\ messages[2].tool_calls = <<"call1", "call2">>
    /\ messages[3].role = "tool"
    /\ messages[4].role = "tool"
    /\ messages[5].tool_calls = <<"call1">>
    /\ messages[6].role = "tool"
    /\ messages[7].role = "assistant"
    /\ messages[7].has_key
    /\ messages[7].tool_calls = <<>>

====
